---- MODULE Spec2Model ----
(***************************************************************************)
(* mechanic-mcp: the indexing/retrieval core (src/core/indexer.ts), the    *)
(* data store (core/engine.ts), the bootstrap refresh loop (index.ts) and  *)
(* the MCP tool handlers (mcp/server.ts).                                  *)
(*                                                                         *)
(* Text is a sequence of one-character strings.  A JavaScript object used  *)
(* as a map is a record [keys, count]: keys is the sequence Object.keys    *)
(* returns, count the function from key to value.  Scores are kept in      *)
(* fixed point: a field weight is held doubled, a candidate weight times   *)
(* ten, Math.log to four decimals: 200000 score units make 1.0.           *)
(***************************************************************************)
EXTENDS Integers, Sequences, FiniteSets, TLC

\* ------------------------------------------------------------------ text

Upper == <<"A", "B", "C", "D", "E", "F", "G", "H", "I", "J", "K", "L", "M",
           "N", "O", "P", "Q", "R", "S", "T", "U", "V", "W", "X", "Y", "Z">>

Lower == <<"a", "b", "c", "d", "e", "f", "g", "h", "i", "j", "k", "l", "m",
           "n", "o", "p", "q", "r", "s", "t", "u", "v", "w", "x", "y", "z">>

Digits == <<"0", "1", "2", "3", "4", "5", "6", "7", "8", "9">>

Range(s) == {s[i] : i \in DOMAIN s}

\* A loop computes each value before it goes on.  TRUE, once v has been
\* evaluated: a value carried through a recursion is evaluated step by step
\* and not as one nested expression at the end.
computed(v) == v = v

UpperSet == Range(Upper)

LowerOf == [u \in UpperSet |-> Lower[CHOOSE i \in DOMAIN Upper : Upper[i] = u]]

\* String.prototype.toLowerCase on one character.
lowerChar(c) == IF c \in UpperSet THEN LowerOf[c] ELSE c

toLowerCase(s) == [i \in DOMAIN s |-> lowerChar(s[i])]

\* Array.prototype.join(sep) over an array of strings.
RECURSIVE join(_, _)
join(parts, sep) ==
  IF Len(parts) = 0 THEN <<>>
  ELSE IF Len(parts) = 1 THEN parts[1]
  ELSE parts[1] \o sep \o join(Tail(parts), sep)

\* String.prototype.includes: needle occurs in hay as a contiguous run.
includes(hay, needle) ==
  \E i \in 1..(Len(hay) - Len(needle) + 1) :
    SubSeq(hay, i, i + Len(needle) - 1) = needle

\* Array.prototype.slice(start, end) with 0 <= start.
slice(s, start, end) ==
  SubSeq(s, start + 1, IF end < Len(s) THEN end ELSE Len(s))

\* An optional value: <<>> for undefined, <<v>> for v.
orEmpty(opt) == IF opt = <<>> THEN <<>> ELSE opt[1]

\* ----------------------------------------------------------- tokenizer

STOP_WORDS ==
  { <<"a">>, <<"a", "n">>, <<"a", "n", "d">>, <<"f", "o", "r">>,
    <<"f", "r", "o", "m">>, <<"i", "n">>, <<"o", "f">>, <<"o", "n">>,
    <<"o", "r">>, <<"t", "h", "e">>, <<"t", "o">>, <<"w", "i", "t", "h">> }

TokenChars == Range(Lower) \cup Range(Digits)

\* [a-z0-9]
isTokenChar(c) == c \in TokenChars

\* The k-th smallest element of a set of numbers.
nth(S, k) == CHOOSE i \in S : Cardinality({j \in S : j <= i}) = k

\* .replace(/[_\/]+/g, ' ').split(/[^a-z0-9]+/g).filter(Boolean): the
\* maximal runs of [a-z0-9] ('_' and '/' become a separator, which they
\* already are for the split).
splitRuns(s) ==
  LET starts == {i \in DOMAIN s : isTokenChar(s[i]) /\ (i = 1 \/ ~isTokenChar(s[i - 1]))}
      endOf(i) == CHOOSE j \in i..Len(s) :
                    /\ \A k \in i..j : isTokenChar(s[k])
                    /\ (j = Len(s) \/ ~isTokenChar(s[j + 1]))
  IN  [k \in 1..Cardinality(starts) |-> SubSeq(s, nth(starts, k), endOf(nth(starts, k)))]

tokenize(text) ==
  SelectSeq(splitRuns(toLowerCase(text)), LAMBDA t : t \notin STOP_WORDS)

\* ------------------------------------------------- JavaScript object keys

\* A canonical array index ("5", "12", not "05"): such keys are enumerated
\* first, in ascending numeric order, whatever the insertion order.
DigitSet == Range(Digits)

isArrayIndex(k) ==
  /\ Len(k) > 0
  /\ \A i \in DOMAIN k : k[i] \in DigitSet
  /\ (Len(k) = 1 \/ k[1] # "0")

digitValue(c) == (CHOOSE i \in DOMAIN Digits : Digits[i] = c) - 1

RECURSIVE numericValue(_)
numericValue(k) ==
  IF Len(k) = 0 THEN 0
  ELSE 10 * numericValue(SubSeq(k, 1, Len(k) - 1)) + digitValue(k[Len(k)])

\* The elements of s in the order of their first occurrence.
firstOccurrences(s) ==
  LET firsts == {i \in DOMAIN s : \A j \in 1..(i - 1) : s[j] # s[i]}
  IN  [k \in 1..Cardinality(firsts) |-> s[nth(firsts, k)]]

RECURSIVE ascendingIndexKeys(_)
ascendingIndexKeys(ks) ==
  IF ks = {} THEN <<>>
  ELSE LET m == CHOOSE k \in ks : \A o \in ks : numericValue(k) <= numericValue(o)
       IN  <<m>> \o ascendingIndexKeys(ks \ {m})

\* The enumeration order of the distinct keys uniq (in insertion order).
ownKeys(uniq) ==
  ascendingIndexKeys({k \in Range(uniq) : isArrayIndex(k)})
    \o SelectSeq(uniq, LAMBDA k : ~isArrayIndex(k))

\* Object.keys of an object whose keys were inserted in the order of ins.
objectKeys(ins) == ownKeys(firstOccurrences(ins))

\* A value that is not a number.  The count maps are plain objects ({}), so
\* a key Object.prototype defines reads as the inherited function where the
\* object has no such key of its own, and as the string `+ 1` makes of that
\* function where it has.  Either is truthy, is not 0, and gives NaN in the
\* arithmetic the code then does with it; the one value NaN stands for all
\* three.  NaN compares false with every number (NaN > 0, NaN >= 0,
\* NaN === 0 are all false).
NaN == -1

\* The property names of Object.prototype a token ([a-z0-9]+) can equal.
InheritedKeys == { <<"c", "o", "n", "s", "t", "r", "u", "c", "t", "o", "r">> }

\* obj[key] || 0
lookup(obj, key) ==
  IF key \in DOMAIN obj.count THEN obj.count[key]
  ELSE IF key \in InheritedKeys THEN NaN
  ELSE 0

occurrences(s, x) == Cardinality({i \in DOMAIN s : s[i] = x})

\* What counts[token] = (counts[token] || 0) + 1, done once per occurrence
\* of x in s, leaves in counts[x].
counted(s, x) == IF x \in InheritedKeys THEN NaN ELSE occurrences(s, x)

\* x + y, x - y and x * y of JavaScript numbers.
plus(x, y) == IF x = NaN \/ y = NaN THEN NaN ELSE x + y

minus(x, y) == IF x = NaN \/ y = NaN THEN NaN ELSE x - y

times(x, y) == IF x = NaN \/ y = NaN THEN NaN ELSE x * y

\* What Array.prototype.sort makes of a comparator's result: NaN is +0.
sortOrder(v) == IF v = NaN THEN 0 ELSE v

\* The object that counts[token] = (counts[token] || 0) + 1 leaves, done
\* for each element of ins in turn.
tally(ins) ==
  [keys |-> objectKeys(ins),
   count |-> [t \in Range(ins) |-> counted(ins, t)]]

countTokens(text) == tally(tokenize(text))

\* ------------------------------------------------------------- indexer

\* A plausible slip: content weighted 15 for 1.5.
FIELD_CONFIG_heavyContent ==
  << [field |-> "title",    weight2 |-> 10],
     [field |-> "tags",     weight2 |-> 7],
     [field |-> "content",  weight2 |-> 30],
     [field |-> "slug",     weight2 |-> 8],
     [field |-> "headings", weight2 |-> 6],
     [field |-> "section",  weight2 |-> 4],
     [field |-> "events",   weight2 |-> 4],
     [field |-> "actions",  weight2 |-> 4],
     [field |-> "scopes",   weight2 |-> 4] >>

\* Object.entries(FIELD_CONFIG), in declaration order; weight2 is twice the
\* weight (3.5 and 1.5 are not integers).
FIELD_CONFIG ==
  << [field |-> "title",    weight2 |-> 10],
     [field |-> "tags",     weight2 |-> 7],
     [field |-> "content",  weight2 |-> 3],
     [field |-> "slug",     weight2 |-> 8],
     [field |-> "headings", weight2 |-> 6],
     [field |-> "section",  weight2 |-> 4],
     [field |-> "events",   weight2 |-> 4],
     [field |-> "actions",  weight2 |-> 4],
     [field |-> "scopes",   weight2 |-> 4] >>

Fields == [i \in DOMAIN FIELD_CONFIG |-> FIELD_CONFIG[i].field]

SPACE == <<" ">>

\* FIELD_CONFIG[field].extractor(item)
extractor(field, item) ==
  CASE field = "title"    -> item.title
    [] field = "tags"     -> join(item.tags, SPACE)
    [] field = "content"  -> item.content
    [] field = "slug"     -> IF item.kind = "task" THEN item.slug ELSE <<>>
    [] field = "headings" -> IF item.kind = "doc" THEN join(item.headings, SPACE) ELSE <<>>
    [] field = "section"  -> IF item.kind = "doc" THEN orEmpty(item.section) ELSE <<>>
    [] field = "events"   -> IF item.kind = "task" THEN join(item.events, SPACE) ELSE <<>>
    [] field = "actions"  -> IF item.kind = "task" THEN join(item.actions, SPACE) ELSE <<>>
    [] field = "scopes"   -> IF item.kind = "task" THEN join(item.scopes, SPACE) ELSE <<>>

indexRecord(item) ==
  [id |-> item.id,
   kind |-> item.kind,
   path |-> item.path,
   tags |-> item.tags,
   fieldText |-> [f \in Range(Fields) |-> extractor(f, item)],
   tokenFreq |-> [f \in Range(Fields) |-> countTokens(extractor(f, item))],
   raw |-> item]

\* The Set `seen` of one document, in insertion order: the keys of each
\* field's count map, field after field.
RECURSIVE seenTokens(_, _)
seenTokens(doc, i) ==
  IF i > Len(Fields) THEN <<>>
  ELSE doc.tokenFreq[Fields[i]].keys \o seenTokens(doc, i + 1)

\* new Set<string>(): each token once per document.
seen(doc) == firstOccurrences(seenTokens(doc, 1))

RECURSIVE docFreqInsertions(_)
docFreqInsertions(indexed) ==
  IF Len(indexed) = 0 THEN <<>>
  ELSE seen(indexed[1]) \o docFreqInsertions(Tail(indexed))

buildDocFrequency(indexed) == tally(docFreqInsertions(indexed))

\* The BuiltIndex over the indexed documents docs.
builtIndex(docs) ==
  [documents |-> docs,
   docFreq |-> buildDocFrequency(docs),
   totalDocuments |-> Len(docs)]

buildIndex(records) ==
  builtIndex([i \in DOMAIN records |-> indexRecord(records[i])])

\* --------------------------------------------------------- levenshtein

min3(x, y, z) ==
  IF x <= y /\ x <= z THEN x ELSE IF y <= z THEN y ELSE z

\* a[i - 1] === b[j - 1] ? 0 : 1
cost(a, b, i, j) == IF a[i] = b[j] THEN 0 ELSE 1

RECURSIVE levRow(_, _, _, _, _, _)

\* The inner loop goes on to j + 1 with dp[i][j] stored.
levRowFrom(a, b, i, prev, j, next) ==
  IF computed(next) THEN levRow(a, b, i, prev, j + 1, next) ELSE next

\* Row i of dp, cells 0..j-1 being in cur (cell j at position j + 1).
levRow(a, b, i, prev, j, cur) ==
  IF j > Len(b) THEN cur
  ELSE levRowFrom(a, b, i, prev, j,
         Append(cur, min3(prev[j + 1] + 1, cur[j] + 1, prev[j] + cost(a, b, i, j))))

RECURSIVE levRows(_, _, _, _)

\* The outer loop goes on to i + 1 with row i filled.
levRowsFrom(a, b, i, row) ==
  IF computed(row) THEN levRows(a, b, i + 1, row) ELSE row

levRows(a, b, i, prev) ==
  IF i > Len(a) THEN prev
  ELSE levRowsFrom(a, b, i, levRow(a, b, i, prev, 1, <<i>>))

levenshtein(a, b) ==
  IF a = b THEN 0
  ELSE IF Len(a) = 0 THEN Len(b)
  ELSE IF Len(b) = 0 THEN Len(a)
  ELSE levRows(a, b, 1, [j \in 1..(Len(b) + 1) |-> j - 1])[Len(b) + 1]

\* ------------------------------------------------------ fuzzy expansion

\* distance === 0 ? 1 : distance === 1 ? 0.6 : 0.3, times ten.
candidateWeight10(distance) ==
  IF distance = 0 THEN 10 ELSE IF distance = 1 THEN 6 ELSE 3

\* A plausible slip: the tie-break on document frequency left out.
compareCandidatesByDistance(a, b, docFreq) == a.distance - b.distance

\* The comparator of candidates.sort: negative when a sorts before b.
compareCandidates(a, b, docFreq) ==
  IF a.distance # b.distance
    THEN a.distance - b.distance
    ELSE minus(lookup(docFreq, b.token), lookup(docFreq, a.token))

\* Array.prototype.sort is stable: x goes after every element that does not
\* compare greater than it.
RECURSIVE insertCandidate(_, _, _)
insertCandidate(sorted, x, docFreq) ==
  IF Len(sorted) = 0 THEN <<x>>
  ELSE IF sortOrder(compareCandidates(sorted[Len(sorted)], x, docFreq)) <= 0
    THEN Append(sorted, x)
    ELSE Append(insertCandidate(SubSeq(sorted, 1, Len(sorted) - 1), x, docFreq),
                sorted[Len(sorted)])

RECURSIVE sortCandidates(_, _)
sortCandidates(cands, docFreq) ==
  IF Len(cands) = 0 THEN <<>>
  ELSE insertCandidate(sortCandidates(SubSeq(cands, 1, Len(cands) - 1), docFreq),
                       cands[Len(cands)], docFreq)

\* levenshtein(token, vocabToken) of every vocabulary token.
distances(token, vocabulary) ==
  [i \in DOMAIN vocabulary |-> levenshtein(token, vocabulary[i])]

\* A plausible slip: >= for >, which drops the tokens at exactly maxEdits.
withinEditsStrict(distance, maxEdits) ==
  {i \in DOMAIN distance : ~(distance[i] >= maxEdits /\ distance[i] > 0)}

\* if (distance > maxEdits) continue: the positions the loop keeps.
withinEdits(distance, maxEdits) ==
  {i \in DOMAIN distance : ~(distance[i] > maxEdits)}

\* candidates.push({ token: vocabToken, distance, weight }) at the kept
\* positions, in the vocabulary's order.
pushCandidates(vocabulary, distance, within) ==
  [k \in 1..Cardinality(within) |->
     [token |-> vocabulary[nth(within, k)], distance |-> distance[nth(within, k)],
      weight10 |-> candidateWeight10(distance[nth(within, k)])]]

candidatesWithin(vocabulary, distance, maxEdits) ==
  pushCandidates(vocabulary, distance, withinEdits(distance, maxEdits))

\* The loop over the vocabulary: one candidate per token within maxEdits.
vocabularyCandidates(token, vocabulary, maxEdits) ==
  candidatesWithin(vocabulary, distances(token, vocabulary), maxEdits)

literalCandidate(token) == [token |-> token, distance |-> 0, weight10 |-> 10]

\* candidates.slice(0, limit)
truncateCandidates(cands, limit) == slice(cands, 0, limit)

\* The candidates as the loop left them, the literal token never added.
withLiteralOmitted(found, token) == found

\* if (!candidates.find((c) => c.distance === 0)) candidates.push(literal)
withLiteral(found, token) ==
  IF \E i \in DOMAIN found : found[i].distance = 0
    THEN found
    ELSE Append(found, literalCandidate(token))

fuzzyMatchToken(token, docFreq, maxEdits, limit) ==
  truncateCandidates(
    sortCandidates(withLiteral(vocabularyCandidates(token, docFreq.keys, maxEdits), token),
                   docFreq),
    limit)

buildTokenCandidates(tokens, docFreq, fuzzy, maxEdits, maxCandidates) ==
  [i \in DOMAIN tokens |->
     [queryToken |-> tokens[i],
      candidates |->
        IF fuzzy
          THEN fuzzyMatchToken(tokens[i], docFreq, maxEdits, maxCandidates)
          ELSE <<literalCandidate(tokens[i])>>]]

\* -------------------------------------------------------------- scoring

\* Math.log(n) for n = 1..20, to four decimals.
LnNat ==
  << 0, 6931, 10986, 13863, 16094, 17918, 19459, 20794, 21972, 23026,
     23979, 24849, 25649, 26391, 27081, 27726, 28332, 28904, 29444, 29957 >>

\* Math.log(1 + totalDocuments / (1 + df)) = ln(1 + df + N) - ln(1 + df).
idf(totalDocuments, df) ==
  IF df = NaN THEN NaN ELSE LnNat[1 + df + totalDocuments] - LnNat[1 + df]

\* freq * fieldWeight * idf * weight, freq being freqMap[token] || 0.
weighted(freq, weight2, idfValue, weight10) ==
  IF freq = 0 THEN 0
  ELSE times(times(times(freq, weight2), idfValue), weight10)

\* What one field adds to the score; 0 when freq === 0.
fieldScore(doc, i, token, weight10, idfValue) ==
  weighted(lookup(doc.tokenFreq[Fields[i]], token), FIELD_CONFIG[i].weight2,
           idfValue, weight10)

RECURSIVE sumFields(_, _, _, _, _)
sumFields(doc, i, token, weight10, idfValue) ==
  IF i > Len(Fields) THEN 0
  ELSE plus(fieldScore(doc, i, token, weight10, idfValue),
            sumFields(doc, i + 1, token, weight10, idfValue))

\* What one candidate adds to the score of doc.
candidateScore(doc, c, built) ==
  sumFields(doc, 1, c.token, c.weight10,
            idf(built.totalDocuments, lookup(built.docFreq, c.token)))

RECURSIVE sumCandidates(_, _, _)
sumCandidates(doc, candidates, built) ==
  IF Len(candidates) = 0 THEN 0
  ELSE plus(candidateScore(doc, candidates[1], built),
            sumCandidates(doc, Tail(candidates), built))

RECURSIVE sumTokens(_, _, _)
sumTokens(doc, tokenCandidates, built) ==
  IF Len(tokenCandidates) = 0 THEN 0
  ELSE plus(sumCandidates(doc, tokenCandidates[1].candidates, built),
            sumTokens(doc, Tail(tokenCandidates), built))

\* null is <<>>, {score} is <<score>>.  (The matches array the code also
\* returns is not read by any caller.)
\* A plausible slip: a zero score dropped whatever the query.
scoreOrNullOnZero(tokenCandidates, score) ==
  IF score = 0 THEN <<>> ELSE <<score>>

\* if (tokenCandidates.length > 0 && score === 0) return null
scoreOrNull(tokenCandidates, score) ==
  IF Len(tokenCandidates) > 0 /\ score = 0 THEN <<>> ELSE <<score>>

\* A plausible slip: the kind test left out.
scoreDocumentAnyKind(doc, tokenCandidates, built, kind) ==
  scoreOrNull(tokenCandidates, sumTokens(doc, tokenCandidates, built))

scoreDocument(doc, tokenCandidates, built, kind) ==
  IF kind # <<>> /\ doc.kind # kind[1] THEN <<>>
  ELSE scoreOrNull(tokenCandidates, sumTokens(doc, tokenCandidates, built))

\* -------------------------------------------------------------- snippet

SNIPPET_LENGTH == 200

\* The one character U+2026.
ELLIPSIS == <<"...">>

\* String.prototype.indexOf, 0-based; -1 when absent.
indexOf(hay, needle) ==
  IF includes(hay, needle)
    THEN (CHOOSE i \in 1..(Len(hay) - Len(needle) + 1) :
            /\ SubSeq(hay, i, i + Len(needle) - 1) = needle
            /\ \A k \in 1..(i - 1) : SubSeq(hay, k, k + Len(needle) - 1) # needle) - 1
    ELSE -1

WHITESPACE == {" ", "\n", "\t", "\r"}

RECURSIVE trimStart(_)
trimStart(s) ==
  IF Len(s) > 0 /\ s[1] \in WHITESPACE THEN trimStart(Tail(s)) ELSE s

RECURSIVE trimEnd(_)
trimEnd(s) ==
  IF Len(s) > 0 /\ s[Len(s)] \in WHITESPACE THEN trimEnd(SubSeq(s, 1, Len(s) - 1)) ELSE s

trim(s) == trimEnd(trimStart(s))

\* The excerpt around a match at idx.
excerptAt(text, idx) ==
  LET half == SNIPPET_LENGTH \div 2
      start == IF idx - half > 0 THEN idx - half ELSE 0
      end == IF start + SNIPPET_LENGTH < Len(text)
               THEN start + SNIPPET_LENGTH ELSE Len(text)
  IN  (IF start > 0 THEN ELLIPSIS ELSE <<>>)
        \o trim(slice(text, start, end))
        \o (IF end < Len(text) THEN ELLIPSIS ELSE <<>>)

RECURSIVE buildSnippet(_, _)

\* One turn of the loop over queryTokens, idx being lower.indexOf(token).
snippetFrom(text, queryTokens, idx) ==
  IF idx # -1 THEN excerptAt(text, idx) ELSE buildSnippet(text, Tail(queryTokens))

buildSnippet(text, queryTokens) ==
  IF Len(text) = 0 THEN <<>>
  ELSE IF Len(queryTokens) = 0 THEN trim(slice(text, 0, SNIPPET_LENGTH))
  ELSE snippetFrom(text, queryTokens, indexOf(toLowerCase(text), queryTokens[1]))

buildDocSnippet(item, queryTokens) ==
  IF item.kind = "doc"
    THEN LET heading == IF Len(item.headings) > 0 /\ Len(item.headings[1]) > 0
                          THEN item.headings[1] ELSE item.title
         IN  heading \o <<":", " ">> \o buildSnippet(item.content, queryTokens)
    ELSE buildSnippet(item.content, queryTokens)

\* --------------------------------------------------------------- search

parseQuery(query) == tokenize(query)

DEFAULT_LIMIT == 10
DEFAULT_OFFSET == 0
DEFAULT_FUZZY_MAX_EDITS == 1
DEFAULT_FUZZY_MAX_CANDIDATES == 3

\* A destructuring default: the value, or d when the option is undefined.
withDefault(opt, d) == IF opt = <<>> THEN d ELSE opt[1]

\* Array.prototype.includes on an array of strings.
arrayIncludes(arr, x) == \E i \in DOMAIN arr : arr[i] = x

\* A plausible slip: some for every, one requested tag being enough.
tagsPassSome(doc, tags) ==
  IF tags # <<>> /\ Len(tags[1]) > 0
    THEN LET docTags == IF doc.raw.kind = "task" THEN doc.raw.tags ELSE doc.tags
             lower == [i \in DOMAIN docTags |-> toLowerCase(docTags[i])]
         IN  \E i \in DOMAIN tags[1] : arrayIncludes(lower, toLowerCase(tags[1][i]))
    ELSE TRUE

\* The tags filter; TRUE when the document is kept.
tagsPass(doc, tags) ==
  IF tags # <<>> /\ Len(tags[1]) > 0
    THEN LET docTags == IF doc.raw.kind = "task" THEN doc.raw.tags ELSE doc.tags
             lower == [i \in DOMAIN docTags |-> toLowerCase(docTags[i])]
         IN  \A i \in DOMAIN tags[1] : arrayIncludes(lower, toLowerCase(tags[1][i]))
    ELSE TRUE

\* `${subs} ${templates}` of a task record.
combinedSubscriptions(record) ==
  join([i \in DOMAIN record.events |-> toLowerCase(record.events[i])], SPACE)
    \o SPACE \o toLowerCase(orEmpty(record.subscriptions_template))

\* A plausible slip: the requested strings compared without lower-casing.
subscriptionsPassCaseSensitive(doc, subscriptions) ==
  IF subscriptions # <<>> /\ Len(subscriptions[1]) > 0 /\ doc.raw.kind = "task"
    THEN \A i \in DOMAIN subscriptions[1] :
           includes(combinedSubscriptions(doc.raw), subscriptions[1][i])
    ELSE TRUE

\* The subscriptions filter; TRUE when the document is kept.
subscriptionsPass(doc, subscriptions) ==
  IF subscriptions # <<>> /\ Len(subscriptions[1]) > 0 /\ doc.raw.kind = "task"
    THEN \A i \in DOMAIN subscriptions[1] :
           includes(combinedSubscriptions(doc.raw), toLowerCase(subscriptions[1][i]))
    ELSE TRUE

\* built.documents.forEach: the documents kept, each with its score.
\* if (!scoredDoc) return; scored.push({ doc, score })
pushScored(doc, scoredDoc) ==
  IF scoredDoc = <<>> THEN <<>> ELSE <<[doc |-> doc, score |-> scoredDoc[1]]>>

\* What one turn of the forEach pushes for doc: nothing, or its entry.
scoreOne(doc, tokenCandidates, built, kind, tags, subscriptions) ==
  IF ~tagsPass(doc, tags) THEN <<>>
  ELSE IF ~subscriptionsPass(doc, subscriptions) THEN <<>>
  ELSE pushScored(doc, scoreDocument(doc, tokenCandidates, built, kind))

RECURSIVE scoreAll(_, _, _, _, _, _)
scoreAll(docs, tokenCandidates, built, kind, tags, subscriptions) ==
  IF Len(docs) = 0 THEN <<>>
  ELSE scoreOne(docs[1], tokenCandidates, built, kind, tags, subscriptions)
         \o scoreAll(Tail(docs), tokenCandidates, built, kind, tags, subscriptions)

\* scored.sort((a, b) => b.score - a.score), stable.
RECURSIVE insertScored(_, _)
insertScored(sorted, x) ==
  IF Len(sorted) = 0 THEN <<x>>
  ELSE IF sortOrder(minus(x.score, sorted[Len(sorted)].score)) <= 0
    THEN Append(sorted, x)
    ELSE Append(insertScored(SubSeq(sorted, 1, Len(sorted) - 1), x), sorted[Len(sorted)])

RECURSIVE sortScored(_)
sortScored(scored) ==
  IF Len(scored) = 0 THEN <<>>
  ELSE insertScored(sortScored(SubSeq(scored, 1, Len(scored) - 1)), scored[Len(scored)])

\* The candidate tokens handed to the snippet builder.
RECURSIVE flatCandidateTokens(_)
flatCandidateTokens(tokenCandidates) ==
  IF Len(tokenCandidates) = 0 THEN <<>>
  ELSE [i \in DOMAIN tokenCandidates[1].candidates |-> tokenCandidates[1].candidates[i].token]
         \o flatCandidateTokens(Tail(tokenCandidates))

\* The tokenCandidates of a search.
searchCandidates(built, options) ==
  buildTokenCandidates(parseQuery(options.query), built.docFreq,
                       withDefault(options.fuzzy, TRUE),
                       withDefault(options.fuzzyMaxEdits, DEFAULT_FUZZY_MAX_EDITS),
                       withDefault(options.fuzzyMaxCandidates, DEFAULT_FUZZY_MAX_CANDIDATES))

\* The list `scored` after the sort, before pagination.
sortedScored(built, options, tokenCandidates) ==
  sortScored(scoreAll(built.documents, tokenCandidates, built,
                      options.kind, options.tags, options.subscriptions))

\* A plausible slip: slice(offset, limit), the end taken for a length.
pageEndIsLimit(scored, offset, limit) == slice(scored, offset, limit)

\* A plausible slip: the end of the slice one too far.
pageOneMore(scored, offset, limit) == slice(scored, offset, offset + limit + 1)

\* scored.slice(offset, offset + limit)
page(scored, offset, limit) == slice(scored, offset, offset + limit)

\* The SearchHit of one entry of the page.
searchHit(entry, snippetTokens) ==
  [id |-> entry.doc.id,
   kind |-> entry.doc.kind,
   title |-> entry.doc.raw.title,
   path |-> entry.doc.path,
   snippet |-> buildDocSnippet(entry.doc.raw, snippetTokens),
   tags |-> entry.doc.tags,
   score |-> entry.score]

searchHits(paged, snippetTokens) ==
  [i \in DOMAIN paged |-> searchHit(paged[i], snippetTokens)]

\* searchAdvanced from the tokenCandidates on.
searchWith(built, options, tokenCandidates) ==
  searchHits(page(sortedScored(built, options, tokenCandidates),
                  withDefault(options.offset, DEFAULT_OFFSET),
                  withDefault(options.limit, DEFAULT_LIMIT)),
             flatCandidateTokens(tokenCandidates))

searchAdvanced(built, options) ==
  searchWith(built, options, searchCandidates(built, options))

\* ------------------------------------------------------------- records

\* DocRecord and TaskRecord values (types.ts).  The first two are the
\* two-record scenario; the others add a second task, a second doc, tags in
\* mixed case, subscriptions and a heading, and a doc about constructors.
DocRefund ==
  [id |-> <<"d", "o", "c", ":", "r", "e", "f", "u", "n", "d">>, kind |-> "doc",
   title |-> <<"R", "e", "f", "u", "n", "d", " ", "p", "o", "l", "i", "c", "y">>,
   path |-> "https://learn.mechanic.dev/refund",
   section |-> <<>>, tags |-> <<>>, headings |-> <<>>,
   content |-> <<"R", "e", "f", "u", "n", "d", "s", " ", "a", "r", "e", " ",
                 "i", "s", "s", "u", "e", "d", " ", "w", "i", "t", "h", "i", "n",
                 " ", "5", " ", "d", "a", "y", "s">>]

TaskRefundOrder ==
  [id |-> <<"t", "a", "s", "k", ":", "r", "e", "f", "u", "n", "d", "-", "o", "r", "d", "e", "r">>, kind |-> "task",
   slug |-> <<"r", "e", "f", "u", "n", "d", "-", "o", "r", "d", "e", "r">>,
   title |-> <<"R", "e", "f", "u", "n", "d", " ", "o", "r", "d", "e", "r">>,
   path |-> "https://tasks.mechanic.dev/refund-order",
   tags |-> << <<"o", "r", "d", "e", "r", "s">> >>,
   events |-> <<>>, actions |-> <<>>, scopes |-> <<>>,
   content |-> <<>>, subscriptions_template |-> <<>>, options |-> <<>>]

TaskTagOrder ==
  [id |-> <<"t", "a", "s", "k", ":", "t", "a", "g", "-", "o", "r", "d", "e", "r">>, kind |-> "task",
   slug |-> <<"t", "a", "g", "-", "o", "r", "d", "e", "r">>,
   title |-> <<"T", "a", "g", " ", "o", "r", "d", "e", "r">>,
   path |-> "https://tasks.mechanic.dev/tag-order",
   tags |-> << <<"O", "r", "d", "e", "r", "s">>, <<"t", "a", "g", "s">> >>,
   events |-> << <<"s", "h", "o", "p", "i", "f", "y", "/", "o", "r", "d", "e", "r", "s",
                   "/", "c", "r", "e", "a", "t", "e">> >>,
   actions |-> <<>>, scopes |-> <<>>,
   content |-> <<"T", "a", "g", " ", "t", "h", "e", " ", "o", "r", "d", "e", "r">>,
   subscriptions_template |-> <<>>, options |-> << <<"{", "}">> >>]

DocTags ==
  [id |-> <<"d", "o", "c", ":", "c", "o", "r", "e", "/", "t", "a", "g", "s">>, kind |-> "doc",
   title |-> <<"O", "r", "d", "e", "r", " ", "t", "a", "g", "s">>,
   path |-> "https://learn.mechanic.dev/core/tags",
   section |-> << <<"c", "o", "r", "e">> >>,
   tags |-> << <<"o", "r", "d", "e", "r", "s">> >>,
   headings |-> << <<"T", "a", "g", "s">> >>,
   content |-> <<"T", "a", "g", "s">>]

DocConstructor ==
  [id |-> <<"d", "o", "c", ":", "n", "e", "w">>, kind |-> "doc",
   title |-> <<"C", "o", "n", "s", "t", "r", "u", "c", "t", "o", "r">>,
   path |-> "https://learn.mechanic.dev/new",
   section |-> <<>>, tags |-> <<>>, headings |-> <<>>,
   content |-> <<"A", " ", "c", "o", "n", "s", "t", "r", "u", "c", "t", "o", "r">>]

Catalog == <<DocRefund, TaskRefundOrder, TaskTagOrder, DocTags, DocConstructor>>

\* -------------------------------------------------------------- the uri

\* The characters encodeURIComponent leaves alone.
UriUnreserved ==
  Range(Upper) \cup Range(Lower) \cup Range(Digits)
    \cup {"-", "_", ".", "!", "~", "*", "'", "(", ")"}

\* The percent escapes of the other ASCII characters record ids hold.
PercentCodes ==
  { [char |-> ":", code |-> <<"3", "A">>],
    [char |-> "/", code |-> <<"2", "F">>],
    [char |-> " ", code |-> <<"2", "0">>],
    [char |-> "%", code |-> <<"2", "5">>] }

escapeOf(c) == (CHOOSE p \in PercentCodes : p.char = c).code

\* encodeURIComponent(id)
RECURSIVE encodeUri(_)
encodeUri(id) ==
  IF Len(id) = 0 THEN <<>>
  ELSE (IF id[1] \in UriUnreserved THEN <<id[1]>> ELSE <<"%">> \o escapeOf(id[1]))
         \o encodeUri(Tail(id))

\* decodeURIComponent(uri): <<decoded>>, or <<>> where it throws URIError.
RECURSIVE decodeURIComponent(_)
decodeURIComponent(uri) ==
  IF Len(uri) = 0 THEN << <<>> >>
  ELSE IF uri[1] # "%"
    THEN LET rest == decodeURIComponent(Tail(uri))
         IN  IF rest = <<>> THEN <<>> ELSE << <<uri[1]>> \o rest[1] >>
  ELSE IF Len(uri) < 3 \/ ~ \E p \in PercentCodes : p.code = SubSeq(uri, 2, 3)
    THEN <<>>
  ELSE LET rest == decodeURIComponent(SubSeq(uri, 4, Len(uri)))
           c == (CHOOSE p \in PercentCodes : p.code = SubSeq(uri, 2, 3)).char
       IN  IF rest = <<>> THEN <<>> ELSE << <<c>> \o rest[1] >>

decodeUri(uri) ==
  LET decoded == decodeURIComponent(uri)
  IN  IF decoded = <<>> THEN uri ELSE decoded[1]

\* text.replace(/^prefix/, '')
stripPrefix(text, prefix) ==
  IF Len(text) >= Len(prefix) /\ SubSeq(text, 1, Len(prefix)) = prefix
    THEN SubSeq(text, Len(prefix) + 1, Len(text))
    ELSE text

RESOURCE_SCHEME ==
  <<"m", "e", "c", "h", "a", "n", "i", "c", "-", "d", "o", "c", "s", ":", "/", "/">>

TASK_PREFIX == <<"t", "a", "s", "k", ":">>

\* ------------------------------------------------------------ the store

\* hydrateStore (engine.ts): bundled records win over the loaded ones, a
\* prebuilt index over a built one.  lastIndexed is the instant of the call,
\* held as the ordinal of the hydrateStore call.
hydrateStore(prebuilt, bundled, docs, tasks, instant) ==
  LET recs == IF bundled # <<>> THEN bundled[1] ELSE docs \o tasks
      index == IF prebuilt # <<>> THEN prebuilt[1] ELSE buildIndex(recs)
  IN  [records |-> recs, index |-> index, lastIndexed |-> instant]

searchStoreAdvanced(st, options) == searchAdvanced(st.index, options)

\* What loadDocs returns for the docs working tree at version v: nothing
\* where the path is missing (version 0), then a doc added at version 2.
loadDocs(v) ==
  CASE v = 0 -> <<>>
    [] v = 1 -> <<DocRefund>>
    [] OTHER -> <<DocRefund, DocTags>>

\* What loadTasks returns for the tasks working tree at version v.
loadTasks(v) ==
  CASE v = 0 -> <<>>
    [] v = 1 -> <<TaskRefundOrder>>
    [] OTHER -> <<TaskRefundOrder, TaskTagOrder>>

\* The records and the index the data build writes into the package.
BundledRecords == loadDocs(1) \o loadTasks(1)

PrebuiltIndex == buildIndex(BundledRecords)

\* ------------------------------------------------------------ the tools

\* records.filter((r) => r.kind === kind)
RECURSIVE recordsOfKind(_, _)
recordsOfKind(recs, kind) ==
  IF Len(recs) = 0 THEN <<>>
  ELSE (IF recs[1].kind = kind THEN <<recs[1]>> ELSE <<>>) \o recordsOfKind(Tail(recs), kind)

\* records.filter((r) => r.id === id && r.kind === 'task')
RECURSIVE tasksWithId(_, _)
tasksWithId(recs, id) ==
  IF Len(recs) = 0 THEN <<>>
  ELSE (IF recs[1].id = id /\ recs[1].kind = "task" THEN <<recs[1]>> ELSE <<>>)
         \o tasksWithId(Tail(recs), id)

RECURSIVE flatMapEvents(_)
flatMapEvents(recs) ==
  IF Len(recs) = 0 THEN <<>> ELSE recs[1].events \o flatMapEvents(Tail(recs))

\* Boolean(value) of an optional string, or of an optional object held as
\* its JSON text.
truthy(opt) == opt # <<>> /\ opt[1] # <<>>

\* list.find(Boolean): the first truthy value, or undefined.
RECURSIVE findTruthy(_)
findTruthy(opts) ==
  IF Len(opts) = 0 THEN <<>>
  ELSE IF truthy(opts[1]) THEN opts[1] ELSE findTruthy(Tail(opts))

\* hits.length === input.limit ? input.offset + input.limit : undefined
nextOffsetOf(hits, input) ==
  IF Len(hits) = input.limit THEN <<input.offset + input.limit>> ELSE <<>>

toolOptions(input, kind) ==
  [query |-> input.query, kind |-> <<kind>>,
   limit |-> <<input.limit>>, offset |-> <<input.offset>>,
   fuzzy |-> <<input.fuzzy>>, fuzzyMaxEdits |-> <<input.fuzzyMaxEdits>>,
   fuzzyMaxCandidates |-> <<input.fuzzyMaxCandidates>>,
   tags |-> input.tags, subscriptions |-> input.subscriptions]

\* One element of hitsWithUrl in search_tasks, matching being the records
\* records.filter((r) => r.id === hit.id && r.kind === 'task') selects.
taskHitWithUrl(hit, matching) ==
  [hit |-> hit,
   url |-> <<"https://tasks.mechanic.dev/", stripPrefix(hit.id, TASK_PREFIX)>>,
   subscriptions |-> flatMapEvents(matching),
   subscriptions_template |->
     findTruthy([j \in DOMAIN matching |-> matching[j].subscriptions_template]),
   options |-> findTruthy([j \in DOMAIN matching |-> matching[j].options])]

\* What search_tasks returns for the hits of its search.
tasksAnswer(st, input, hits) ==
  [items |-> [i \in DOMAIN hits |->
                taskHitWithUrl(hits[i], tasksWithId(st.records, hits[i].id))],
   nextOffset |-> nextOffsetOf(hits, input)]

\* The search_tasks handler; st is what its getStore() calls return.
search_tasks(st, input) ==
  tasksAnswer(st, input, searchStoreAdvanced(st, toolOptions(input, "task")))

\* One element of hitsWithUrl in search_docs.
docHitWithUrl(hit) ==
  [hit |-> hit,
   url |-> <<"https://learn.mechanic.dev/", hit.path>>,
   sourceUrl |-> <<"https://learn.mechanic.dev/", hit.path>>]

\* What search_docs returns for the hits of its search.
docsAnswer(input, hits) ==
  [items |-> [i \in DOMAIN hits |-> docHitWithUrl(hits[i])],
   nextOffset |-> nextOffsetOf(hits, input)]

\* The search_docs handler.
search_docs(st, input) ==
  docsAnswer(input, searchStoreAdvanced(st, toolOptions(input, "doc")))

\* buildItem of search_task_examples, for a task that carries no script.
buildItem(record) ==
  [id |-> record.id, title |-> record.title,
   url |-> <<"https://tasks.mechanic.dev/",
             IF record.slug # <<>> THEN record.slug ELSE stripPrefix(record.id, TASK_PREFIX)>>,
   tags |-> record.tags, subscriptions |-> record.events,
   subscriptions_template |-> record.subscriptions_template,
   options |-> record.options]

\* records.find((record) => record.id === id): <<record>>, or <<>>.
findById(recs, id) ==
  LET at == {j \in DOMAIN recs : recs[j].id = id}
  IN  IF at = {} THEN <<>> ELSE <<recs[CHOOSE j \in at : \A k \in at : j <= k]>>

\* hits.map(find).filter(Boolean): the records found, in the hits' order.
RECURSIVE foundRecords(_, _)
foundRecords(hits, taskRecords) ==
  IF Len(hits) = 0 THEN <<>>
  ELSE findById(taskRecords, hits[1].id) \o foundRecords(Tail(hits), taskRecords)

\* found.map((record) => buildItem(record))
buildItems(found) == [i \in DOMAIN found |-> buildItem(found[i])]

\* What search_task_examples returns for the hits of its search.
examplesAnswer(taskRecords, input, hits) ==
  [items |-> buildItems(foundRecords(hits, taskRecords)),
   nextOffset |-> nextOffsetOf(hits, input)]

\* The search_task_examples handler with no pattern given.
search_task_examples(st, input) ==
  examplesAnswer(recordsOfKind(st.records, "task"), input,
                 searchStoreAdvanced(st, [toolOptions(input, "task")
                                            EXCEPT !.query = trim(input.query)]))

\* ------------------------------------- search_task_examples by pattern

\* Tasks that carry code, as readTasks makes them: the script, the online
\* store JavaScript and the order status JavaScript, and for content the
\* three joined by blank lines.  In TaskAlpha "log" is in the script and
\* "cart" in the online store JavaScript only; TaskBeta has its "order" 27
\* characters into the script; TaskGamma has no script.
TaskAlpha ==
  [id |-> <<"t", "a", "s", "k", ":", "a", "l", "p", "h", "a">>, kind |-> "task",
   slug |-> <<"a", "l", "p", "h", "a">>,
   title |-> <<"A", "l", "p", "h", "a">>,
   path |-> "https://tasks.mechanic.dev/alpha",
   tags |-> <<<<"o", "r", "d", "e", "r", "s">>>>,
   events |-> <<<<"s", "h", "o", "p", "i", "f", "y", "/", "o", "r", "d", "e", "r",
               "s", "/", "c", "r", "e", "a", "t", "e">>>>,
   actions |-> <<>>, scopes |-> <<>>,
   content |-> <<"L", "o", "g", " ", "o", "r", "d", "e", "r", "\n", "\n", "c",
                "a", "r", "t">>,
   subscriptions_template |-> <<>>, options |-> <<>>,
   script |-> <<"L", "o", "g", " ", "o", "r", "d", "e", "r">>,
   online_store_javascript |-> <<"c", "a", "r", "t">>,
   order_status_javascript |-> <<>>]

TaskBeta ==
  [id |-> <<"t", "a", "s", "k", ":", "b", "e", "t", "a">>, kind |-> "task",
   slug |-> <<"b", "e", "t", "a">>,
   title |-> <<"B", "e", "t", "a">>,
   path |-> "https://tasks.mechanic.dev/beta",
   tags |-> <<>>,
   events |-> <<>>,
   actions |-> <<>>, scopes |-> <<>>,
   content |-> <<"a", "b", "c", "d", "e", "f", "g", "h", "i", "j", "k", "l",
                "m", "n", "o", "p", "q", "r", "s", "t", "u", "v", "w", "x",
                "y", "z", " ", "o", "r", "d", "e", "r", "\n", "\n", "l", "o",
                "g", " ", "c", "a", "r", "t">>,
   subscriptions_template |-> <<>>, options |-> <<>>,
   script |-> <<"a", "b", "c", "d", "e", "f", "g", "h", "i", "j", "k", "l", "m",
               "n", "o", "p", "q", "r", "s", "t", "u", "v", "w", "x", "y", "z",
               " ", "o", "r", "d", "e", "r">>,
   online_store_javascript |-> <<>>,
   order_status_javascript |-> <<"l", "o", "g", " ", "c", "a", "r", "t">>]

TaskGamma ==
  [id |-> <<"t", "a", "s", "k", ":", "g", "a", "m", "m", "a">>, kind |-> "task",
   slug |-> <<"g", "a", "m", "m", "a">>,
   title |-> <<"g", "a", "m", "m", "a">>,
   path |-> "https://tasks.mechanic.dev/gamma",
   tags |-> <<<<"O", "r", "d", "e", "r", "s">>>>,
   events |-> <<>>,
   actions |-> <<>>, scopes |-> <<>>,
   content |-> <<"C", "a", "r", "t", " ", "l", "o", "g", " ", "o", "r", "d",
                "e", "r">>,
   subscriptions_template |-> <<>>, options |-> <<>>,
   script |-> <<>>,
   online_store_javascript |-> <<"C", "a", "r", "t", " ", "l", "o", "g", " ",
                                "o", "r", "d", "e", "r">>,
   order_status_javascript |-> <<>>]

\* The task records of the stores the pattern search is made on.
ExampleCorpora ==
  { <<>>, <<TaskAlpha>>, <<TaskBeta>>, <<TaskGamma, TaskAlpha>>, <<TaskAlpha, TaskGamma>>,
    <<TaskBeta, TaskGamma>>, <<TaskAlpha, TaskBeta, TaskGamma>>,
    <<TaskGamma, TaskBeta, TaskAlpha>> }

P_log == <<"l", "o", "g">>

P_Log == <<"L", "o", "g">>

P_cart == <<"c", "a", "r", "t">>

P_order == <<"o", "r", "d", "e", "r">>

P_none == <<"z", "z">>

\* Math.max and Math.min of two numbers.
MathMax(a, b) == IF a >= b THEN a ELSE b

MathMin(a, b) == IF a <= b THEN a ELSE b

\* haystack.indexOf(needle, index), 0-based; -1 when there is none.
indexOfFrom(hay, needle, index) ==
  LET at == {i \in index..(Len(hay) - Len(needle)) :
               SubSeq(hay, i + 1, i + Len(needle)) = needle}
  IN  IF at = {} THEN -1 ELSE CHOOSE i \in at : \A j \in at : i <= j

DOTS == <<".", ".", ".">>

\* `${prefix}${text.slice(start, end)}${suffix}` around a match at next.
snippetAround(text, next, needleLength, contextChars) ==
  (IF MathMax(0, next - contextChars) > 0 THEN DOTS ELSE <<>>)
    \o slice(text, MathMax(0, next - contextChars),
             MathMin(Len(text), next + needleLength + contextChars))
    \o (IF MathMin(Len(text), next + needleLength + contextChars) < Len(text)
          THEN DOTS ELSE <<>>)

\* if (matches.length < maxMatches) matches.push({ index: next, snippet })
pushMatch(matches, text, next, needleLength, maxMatches, contextChars) ==
  IF Len(matches) < maxMatches
    THEN Append(matches, [index |-> next,
                          snippet |-> snippetAround(text, next, needleLength, contextChars)])
    ELSE matches

\* One turn of the while loop of findLiteralMatches, next being
\* haystack.indexOf(needle, index); and the loop from index on.
RECURSIVE literalMatchesFrom(_, _, _, _, _, _, _, _)
literalMatchesAt(text, haystack, needle, next, maxMatches, contextChars, count, matches) ==
  IF next = -1
    THEN [count |-> count, matches |-> matches]
    ELSE literalMatchesFrom(text, haystack, needle, next + Len(needle),
                            maxMatches, contextChars, count + 1,
                            pushMatch(matches, text, next, Len(needle), maxMatches,
                                      contextChars))

literalMatchesFrom(text, haystack, needle, index, maxMatches, contextChars, count, matches) ==
  IF index > Len(haystack)
    THEN [count |-> count, matches |-> matches]
    ELSE literalMatchesAt(text, haystack, needle, indexOfFrom(haystack, needle, index),
                          maxMatches, contextChars, count, matches)

findLiteralMatches(text, pattern, caseSensitive, maxMatches, contextChars) ==
  literalMatchesFrom(text,
                     IF caseSensitive THEN text ELSE toLowerCase(text),
                     IF caseSensitive THEN pattern ELSE toLowerCase(pattern),
                     0, maxMatches, contextChars, 0, <<>>)

SCRIPT_FIELDS == <<"script", "online_store_javascript", "order_status_javascript">>

\* The fields collectPatternMatches goes through.
fieldsOf(patternField) == IF patternField = "all" THEN SCRIPT_FIELDS ELSE <<patternField>>

\* result.matches.forEach((match) => matches.push({ field, ...match }))
withField(found, field) ==
  [k \in DOMAIN found |-> [field |-> field, index |-> found[k].index,
                           snippet |-> found[k].snippet]]

\* One field searched: count and matches added to, and on to the next
\* field unless remaining has reached 0.
RECURSIVE collectFrom(_, _, _, _, _, _, _, _)
afterField(record, pattern, fields, i, caseSensitive, remaining, contextChars, acc, result) ==
  IF MathMax(0, remaining - Len(result.matches)) = 0
    THEN [count |-> acc.count + result.count,
          matches |-> acc.matches \o withField(result.matches, fields[i])]
    ELSE collectFrom(record, pattern, fields, i + 1, caseSensitive,
                     MathMax(0, remaining - Len(result.matches)), contextChars,
                     [count |-> acc.count + result.count,
                      matches |-> acc.matches \o withField(result.matches, fields[i])])

\* The loop over the fields of collectPatternMatches, from the i-th on; a
\* field without text is passed over.
collectFrom(record, pattern, fields, i, caseSensitive, remaining, contextChars, acc) ==
  IF i > Len(fields) THEN acc
  ELSE IF record[fields[i]] = <<>>
    THEN collectFrom(record, pattern, fields, i + 1, caseSensitive, remaining,
                     contextChars, acc)
    ELSE afterField(record, pattern, fields, i, caseSensitive, remaining, contextChars, acc,
                    findLiteralMatches(record[fields[i]], pattern, caseSensitive,
                                       remaining, contextChars))

collectPatternMatches(record, pattern, patternField, caseSensitive, maxMatches, contextChars) ==
  collectFrom(record, pattern, fieldsOf(patternField), 1, caseSensitive, maxMatches,
              contextChars, [count |-> 0, matches |-> <<>>])

\* result.matches.forEach((match) => matches.push({ ...match, pattern }))
withPattern(found, pattern) ==
  [k \in DOMAIN found |-> [field |-> found[k].field, index |-> found[k].index,
                           snippet |-> found[k].snippet, pattern |-> pattern]]

\* One pattern collected: the running totals after it.
afterPattern(acc, result, pattern) ==
  [count |-> acc.count + result.count,
   matchedPatterns |-> acc.matchedPatterns + (IF result.count > 0 THEN 1 ELSE 0),
   remaining |-> MathMax(0, acc.remaining - Len(result.matches)),
   matches |-> acc.matches \o withPattern(result.matches, pattern)]

\* The loop over the patterns of collectPatternMatchesForPatterns.
RECURSIVE collectPatternsFrom(_, _, _, _, _, _, _)
collectPatternsFrom(record, patterns, i, patternField, caseSensitive, contextChars, acc) ==
  IF i > Len(patterns) THEN acc
  ELSE IF patterns[i] = <<>>
    THEN collectPatternsFrom(record, patterns, i + 1, patternField, caseSensitive,
                             contextChars, acc)
    ELSE collectPatternsFrom(record, patterns, i + 1, patternField, caseSensitive,
                             contextChars,
                             afterPattern(acc,
                                          collectPatternMatches(record, patterns[i], patternField,
                                                                caseSensitive, acc.remaining,
                                                                contextChars),
                                          patterns[i]))

\* null is <<>>, {count, matches} is <<[count, matches]>>.
matchInfoOrNull(totals, patterns, matchMode) ==
  IF matchMode = "all" /\ totals.matchedPatterns < Len(patterns) THEN <<>>
  ELSE IF matchMode = "any" /\ totals.matchedPatterns = 0 THEN <<>>
  ELSE <<[count |-> totals.count, matches |-> totals.matches]>>

collectPatternMatchesForPatterns(record, patterns, matchMode, patternField, caseSensitive, maxMatches, contextChars) ==
  matchInfoOrNull(collectPatternsFrom(record, patterns, 1, patternField, caseSensitive,
                                      contextChars,
                                      [count |-> 0, matchedPatterns |-> 0,
                                       remaining |-> maxMatches, matches |-> <<>>]),
                  patterns, matchMode)

\* taskMatchesFilters: every requested tag among the record's, and every
\* requested subscription in its events or its template, case aside.
taskMatchesFilters(record, tags, subscriptions) ==
  /\ (tags # <<>> /\ Len(tags[1]) > 0) =>
       \A i \in DOMAIN tags[1] :
         arrayIncludes([j \in DOMAIN record.tags |-> toLowerCase(record.tags[j])],
                       toLowerCase(tags[1][i]))
  /\ (subscriptions # <<>> /\ Len(subscriptions[1]) > 0) =>
       \A i \in DOMAIN subscriptions[1] :
         includes(combinedSubscriptions(record), toLowerCase(subscriptions[1][i]))

\* records.filter(...)
RECURSIVE filterTasks(_, _, _)
filterTasks(taskRecords, tags, subscriptions) ==
  IF Len(taskRecords) = 0 THEN <<>>
  ELSE (IF taskMatchesFilters(taskRecords[1], tags, subscriptions)
          THEN <<taskRecords[1]>> ELSE <<>>)
         \o filterTasks(Tail(taskRecords), tags, subscriptions)

\* The primary order of String.prototype.localeCompare on the characters
\* of the titles: the space, the digits, then the letters, case aside.
CollationOrder == <<" ">> \o Digits \o Lower

rank(c) == CHOOSE i \in DOMAIN CollationOrder : CollationOrder[i] = lowerChar(c)

\* a.localeCompare(b) for titles that differ in more than case: negative,
\* zero or positive.
RECURSIVE localeCompare(_, _)
localeCompare(a, b) ==
  IF Len(a) = 0 /\ Len(b) = 0 THEN 0
  ELSE IF Len(a) = 0 THEN -1
  ELSE IF Len(b) = 0 THEN 1
  ELSE IF rank(a[1]) # rank(b[1]) THEN rank(a[1]) - rank(b[1])
  ELSE localeCompare(Tail(a), Tail(b))

\* The comparator of withMatches.sort: more matches first, then by title.
compareMatches(a, b) ==
  IF b.matchInfo.count # a.matchInfo.count
    THEN b.matchInfo.count - a.matchInfo.count
    ELSE localeCompare(a.record.title, b.record.title)

\* withMatches.sort(compareMatches), stable.
RECURSIVE insertMatch(_, _)
insertMatch(sorted, x) ==
  IF Len(sorted) = 0 THEN <<x>>
  ELSE IF compareMatches(sorted[Len(sorted)], x) <= 0
    THEN Append(sorted, x)
    ELSE Append(insertMatch(SubSeq(sorted, 1, Len(sorted) - 1), x), sorted[Len(sorted)])

RECURSIVE sortMatches(_)
sortMatches(entries) ==
  IF Len(entries) = 0 THEN <<>>
  ELSE insertMatch(sortMatches(SubSeq(entries, 1, Len(entries) - 1)), entries[Len(entries)])

DEFAULT_MAX_SCRIPT_CHARS == 4000

\* truncateField: undefined for no value and for one that is too long.
truncateField(value, maxScriptChars) ==
  IF value = <<>> \/ Len(value) > maxScriptChars THEN <<>> ELSE <<value>>

\* script.length > maxScriptChars ? `${script.slice(0, maxScriptChars)}\n...`
\*                                : script || undefined
scriptOut(script, maxScriptChars) ==
  IF Len(script) > maxScriptChars
    THEN <<slice(script, 0, maxScriptChars) \o <<"\n">> \o DOTS>>
    ELSE IF script = <<>> THEN <<>> ELSE <<script>>

\* buildItem(record, matchInfo) of search_task_examples.
buildItemWithMatches(record, matchInfo, maxScriptChars) ==
  [id |-> record.id, title |-> record.title,
   url |-> <<"https://tasks.mechanic.dev/",
             IF record.slug # <<>> THEN record.slug ELSE stripPrefix(record.id, TASK_PREFIX)>>,
   tags |-> record.tags, subscriptions |-> record.events,
   subscriptions_template |-> record.subscriptions_template,
   options |-> record.options,
   script |-> scriptOut(record.script, maxScriptChars),
   script_truncated |-> IF Len(record.script) > maxScriptChars THEN <<TRUE>> ELSE <<>>,
   match_count |-> IF matchInfo.count = 0 THEN <<>> ELSE <<matchInfo.count>>,
   matches |-> IF Len(matchInfo.matches) = 0 THEN <<>> ELSE <<matchInfo.matches>>,
   online_store_javascript |-> truncateField(record.online_store_javascript, maxScriptChars),
   order_status_javascript |-> truncateField(record.order_status_javascript, maxScriptChars)]

\* The patterns of the call: pattern, then patterns, trimmed, the empty
\* ones dropped, each once.
RECURSIVE nonEmpty(_)
nonEmpty(values) ==
  IF Len(values) = 0 THEN <<>>
  ELSE (IF values[1] = <<>> THEN <<>> ELSE <<values[1]>>) \o nonEmpty(Tail(values))

patternsOf(input) ==
  firstOccurrences(
    (IF trim(orEmpty(input.pattern)) # <<>> THEN <<trim(orEmpty(input.pattern))>> ELSE <<>>)
      \o nonEmpty([i \in DOMAIN input.patterns |-> trim(input.patterns[i])]))

\* The options of the candidates' search: every task, from the first.
candidateOptions(input, query, taskCount) ==
  [query |-> query, kind |-> <<"task">>,
   limit |-> <<taskCount>>, offset |-> <<0>>,
   fuzzy |-> <<input.fuzzy>>, fuzzyMaxEdits |-> <<input.fuzzyMaxEdits>>,
   fuzzyMaxCandidates |-> <<input.fuzzyMaxCandidates>>,
   tags |-> input.tags, subscriptions |-> input.subscriptions]

\* if (!matchInfo) return null; return { record, matchInfo }
entryOrNull(record, matchInfo) ==
  IF matchInfo = <<>> THEN <<>> ELSE <<[record |-> record, matchInfo |-> matchInfo[1]]>>

\* candidates.map(collect).filter(Boolean)
RECURSIVE withMatchesOf(_, _, _)
withMatchesOf(candidates, patterns, input) ==
  IF Len(candidates) = 0 THEN <<>>
  ELSE entryOrNull(candidates[1],
                   collectPatternMatchesForPatterns(candidates[1], patterns, input.matchMode,
                                                    input.patternField,
                                                    input.patternCaseSensitive,
                                                    input.maxMatches, input.contextChars))
         \o withMatchesOf(Tail(candidates), patterns, input)

\* The candidates of the pattern branch: the hits of the query among the
\* tasks, or without a query the tasks that pass the filters.
patternCandidates(st, taskRecords, input, query) ==
  IF query # <<>>
    THEN foundRecords(searchStoreAdvanced(st, candidateOptions(input, query, Len(taskRecords))),
                      taskRecords)
    ELSE filterTasks(taskRecords, input.tags, input.subscriptions)

\* withMatches, sorted when there is no query.
orderedMatches(withMatches, query) ==
  IF query = <<>> THEN sortMatches(withMatches) ELSE withMatches

\* paged.map((entry) => buildItem(entry.record, entry.matchInfo))
pagedItems(paged, maxScriptChars) ==
  [i \in DOMAIN paged |->
     buildItemWithMatches(paged[i].record, paged[i].matchInfo, maxScriptChars)]

\* The answer of the pattern branch for the list withMatches.
patternAnswer(withMatches, input) ==
  [items |-> pagedItems(slice(withMatches, input.offset, input.offset + input.limit),
                        withDefault(input.maxScriptChars, DEFAULT_MAX_SCRIPT_CHARS)),
   nextOffset |-> IF Len(withMatches) > input.offset + input.limit
                    THEN <<input.offset + input.limit>> ELSE <<>>]

\* The list withMatches of the handler, in the order it is paged.
examplesWithMatches(st, input) ==
  orderedMatches(
    withMatchesOf(patternCandidates(st, recordsOfKind(st.records, "task"), input,
                                    trim(orEmpty(input.query))),
                  patternsOf(input), input),
    trim(orEmpty(input.query)))

\* The search_task_examples handler when a pattern is given.
search_task_examples_by_pattern(st, input) ==
  patternAnswer(examplesWithMatches(st, input), input)

\* The Resource of each doc record.
resourcesOf(docs) ==
  [i \in DOMAIN docs |->
     [uri |-> RESOURCE_SCHEME \o encodeUri(docs[i].id), name |-> docs[i].title]]

\* The resources startMcpServer registers: one per doc record.
docResources(recs) == resourcesOf(recordsOfKind(recs, "doc"))

\* What the read callback returns, found being the record of decodedId.
resourceContents(res, found) ==
  IF Len(found) = 0 \/ found[1].kind # "doc"
    THEN [contents |-> <<>>]
    ELSE [contents |-> <<[uri |-> res.uri, mimeType |-> "text/markdown",
                          text |-> found[1].content]>>]

\* The read callback of a registered resource.
readResource(st, res) ==
  resourceContents(res, findById(st.records, decodeUri(stripPrefix(res.uri, RESOURCE_SCHEME))))

\* ------------------------------------------- task payloads and the API

\* The JavaScript values of the fields of a task payload.  A key the
\* payload does not have reads as Undefined.
Undefined == [type |-> "undefined"]

Null == [type |-> "null"]

Str(s) == [type |-> "string", value |-> s]

Arr(a) == [type |-> "array", value |-> a]

\* Boolean(v)
isTruthy(v) ==
  CASE v.type = "undefined" -> FALSE
    [] v.type = "null" -> FALSE
    [] v.type = "string" -> v.value # <<>>
    [] OTHER -> TRUE

\* typeof v === 'string'
isString(v) == v.type = "string"

\* Array.isArray(v)
isArray(v) == v.type = "array"

\* Object.fromEntries(Object.entries(task).filter(value !== null && value !== undefined))
sanitizeTaskPayload(task) ==
  [k \in DOMAIN task |-> IF task[k].type \in {"null", "undefined"} THEN Undefined ELSE task[k]]

NEWLINE == <<"\n">>

\* typeof normalized.subscriptions_template === 'string' ? trim : ''
trimmedTemplate(normalized) ==
  IF isString(normalized.subscriptions_template)
    THEN trim(normalized.subscriptions_template.value)
    ELSE <<>>

\* normalizeTaskPayload after the payload is sanitized.
withJoinedTemplate(normalized) ==
  IF /\ trimmedTemplate(normalized) = <<>>
     /\ isArray(normalized.subscriptions)
     /\ Len(normalized.subscriptions.value) > 0
    THEN [normalized EXCEPT
            !.subscriptions_template = Str(join(normalized.subscriptions.value, NEWLINE))]
    ELSE normalized

normalizeTaskPayload(task) == withJoinedTemplate(sanitizeTaskPayload(task))

\* String.prototype.split(/\r?\n/)
RECURSIVE splitLines(_)
lineBreaks(s) == {i \in DOMAIN s : s[i] = "\n"}

firstBreak(s) == CHOOSE i \in lineBreaks(s) : \A j \in lineBreaks(s) : i <= j

withoutReturn(line) ==
  IF Len(line) > 0 /\ line[Len(line)] = "\r" THEN SubSeq(line, 1, Len(line) - 1) ELSE line

splitLines(s) ==
  IF lineBreaks(s) = {} THEN <<s>>
  ELSE <<withoutReturn(SubSeq(s, 1, firstBreak(s) - 1))>>
         \o splitLines(SubSeq(s, firstBreak(s) + 1, Len(s)))

\* .map((line) => line.trim())
trimEach(lines) == [i \in DOMAIN lines |-> trim(lines[i])]

\* if (subscriptions.length > 0) task.subscriptions = subscriptions
withSubscriptions(task, subscriptions) ==
  IF Len(subscriptions) > 0 THEN [task EXCEPT !.subscriptions = Arr(subscriptions)] ELSE task

normalizeSubscriptionsFromTemplate(task) ==
  IF ~isTruthy(task.subscriptions) /\ isString(task.subscriptions_template)
    THEN withSubscriptions(task, nonEmpty(trimEach(splitLines(task.subscriptions_template.value))))
    ELSE task

buildTaskExportPayload(task) == normalizeSubscriptionsFromTemplate(normalizeTaskPayload(task))

\* hasPreviewInputs with the template taken as it is, not trimmed.
hasPreviewInputsUntrimmed(task) ==
  \/ isString(task.subscriptions_template) /\ task.subscriptions_template.value # <<>>
  \/ isArray(task.subscriptions) /\ Len(task.subscriptions.value) > 0
  \/ isArray(task.preview_event_definitions) /\ Len(task.preview_event_definitions.value) > 0

hasPreviewInputs(task) ==
  \/ isString(task.subscriptions_template) /\ trim(task.subscriptions_template.value) # <<>>
  \/ isArray(task.subscriptions) /\ Len(task.subscriptions.value) > 0
  \/ isArray(task.preview_event_definitions) /\ Len(task.preview_event_definitions.value) > 0

NO_SCRIPT_WARNING == "No script or JS present; export may be incomplete."

NO_PREVIEW_WARNING == "No subscriptions or preview events present; preview_task will fail."

\* The warnings build_task_export collects for the export it has built.
exportWarnings(task) ==
  (IF /\ ~isTruthy(task.script)
      /\ ~isTruthy(task.online_store_javascript)
      /\ ~isTruthy(task.order_status_javascript)
     THEN <<NO_SCRIPT_WARNING>> ELSE <<>>)
  \o (IF /\ ~isTruthy(task.subscriptions_template)
         /\ (~isArray(task.subscriptions) \/ Len(task.subscriptions.value) = 0)
         /\ (~isArray(task.preview_event_definitions)
               \/ Len(task.preview_event_definitions.value) = 0)
        THEN <<NO_PREVIEW_WARNING>> ELSE <<>>)

\* The keys of taskPayloadSchema, every one of them optional.
TaskPayloadKeys ==
  {"id", "name", "script", "options", "subscriptions", "subscriptions_template",
   "preview_event_definitions", "online_store_javascript", "order_status_javascript",
   "docs", "halt_action_run_sequence_on_error", "perform_action_runs_in_sequence",
   "shopify_api_version", "tags"}

\* z.object(...).parse of an object that has none of the schema's keys
\* wrongly typed: a key the schema does not name is stripped, and so is a
\* key whose value is undefined.
parseTaskPayload(object) ==
  [k \in {key \in DOMAIN object \cap TaskPayloadKeys : object[key].type # "undefined"} |->
     object[k]]

\* warnings.length > 0 ? warnings : undefined
warningsOrUndefined(warnings) == IF Len(warnings) > 0 THEN Arr(warnings) ELSE Undefined

\* The object the handler of build_task_export hands to the parse.
exportObject(task) ==
  [task |-> [type |-> "object", value |-> task],
   warnings |-> warningsOrUndefined(exportWarnings(task))]

\* The handler of build_task_export.
build_task_export(input) ==
  [isError |-> FALSE,
   structuredContent |-> parseTaskPayload(exportObject(buildTaskExportPayload(input.task))),
   requests |-> <<>>,
   thrown |-> FALSE]

\* The messages of the errors of the API client.
NOT_CONFIGURED ==
  <<"M", "E", "C", "H", "A", "N", "I", "C", "_", "A", "P", "I", "_", "B", "A", "S",
    "E", " ", "n", "o", "t", " ", "c", "o", "n", "f", "i", "g", "u", "r", "e", "d",
    ";", " ", "s", "e", "t", " ", "M", "E", "C", "H", "A", "N", "I", "C", "_", "A",
    "P", "I", "_", "B", "A", "S", "E", " ", "(", "a", "n", "d", " ", "M", "E", "C",
    "H", "A", "N", "I", "C", "_", "T", "O", "O", "L", "_", "T", "O", "K", "E", "N",
    " ", "i", "f", " ", "r", "e", "q", "u", "i", "r", "e", "d", ")", " ", "f", "o",
    "r", " ", "l", "i", "n", "t", "/", "p", "r", "e", "v", "i", "e", "w", ".">>

REQUEST_TIMED_OUT ==
  <<"R", "e", "q", "u", "e", "s", "t", " ", "t", "i", "m", "e", "d", " ", "o", "u", "t">>

FETCH_FAILED ==
  <<"f", "e", "t", "c", "h", " ", "f", "a", "i", "l", "e", "d">>

UNKNOWN_ERROR ==
  <<"U", "n", "k", "n", "o", "w", "n", " ", "e", "r", "r", "o", "r">>

HTTP ==
  <<"H", "T", "T", "P">>

TIMEOUT ==
  <<"t", "i", "m", "e", "o", "u", "t">>

\* The message of the ZodError of a response that is not of the schema's
\* shape: the message of its first issue.
ZOD_REQUIRED ==
  <<"R", "e", "q", "u", "i", "r", "e", "d">>

\* String(n) of a natural number.
RECURSIVE numberToString(_)
numberToString(n) ==
  IF n < 10 THEN <<Digits[n + 1]>> ELSE numberToString(n \div 10) \o <<Digits[(n % 10) + 1]>>

\* An Error with a name and a message, and a status where one was set.
Error(name, message, status) == [name |-> name, message |-> message, status |-> status]

\* requireApiConfig: !apiConfig || !apiConfig.baseUrl
configured(apiConfig) == apiConfig # <<>> /\ apiConfig[1].baseUrl # <<>>

\* The data of a response: null for an empty body, the parsed JSON, or
\* { message: text } for a body that is not JSON.
dataOf(body) ==
  CASE body.kind = "empty" -> Null
    [] body.kind = "json" -> body.value
    [] OTHER -> [type |-> "object", message |-> body.text]

\* (data as any)?.message || `HTTP ${response.status}`
messageOf(data, status) ==
  IF data.type = "object" /\ "message" \in DOMAIN data /\ data.message # <<>>
    THEN data.message
    ELSE HTTP \o <<" ">> \o numberToString(status)

\* response.ok
ok(status) == status \in 200..299

\* callMechanicApi once the request is made: what it returns or throws for
\* the outcome of the fetch.
afterFetch(outcome) ==
  CASE outcome.kind = "abort" -> [thrown |-> <<Error("Error", REQUEST_TIMED_OUT, <<>>)>>]
    [] outcome.kind = "network" -> [thrown |-> <<Error("TypeError", FETCH_FAILED, <<>>)>>]
    [] OTHER ->
         IF ok(outcome.status)
           THEN [thrown |-> <<>>, data |-> dataOf(outcome.body)]
           ELSE [thrown |-> <<Error("Error", messageOf(dataOf(outcome.body), outcome.status),
                                    <<outcome.status>>)>>]

\* callMechanicApi: the requests it has made, and what it returns or throws.
callMechanicApi(apiConfig, path, task, outcome) ==
  IF ~configured(apiConfig)
    THEN [requests |-> <<>>, thrown |-> <<Error("Error", NOT_CONFIGURED, <<>>)>>]
    ELSE [requests |-> <<[path |-> path, task |-> task]>>] @@ afterFetch(outcome)

\* error.message || 'Unknown error'
rawMessageOf(error) == IF error.message # <<>> THEN error.message ELSE UNKNOWN_ERROR

\* rawMessage.includes('HTTP') ? rawMessage : rawMessage.trim()
messageOfError(error) ==
  IF includes(rawMessageOf(error), HTTP) THEN rawMessageOf(error) ELSE trim(rawMessageOf(error))

codeOf(status, message) ==
  CASE status = <<401>> -> "unauthorized"
    [] status = <<403>> -> "forbidden"
    [] status = <<404>> -> "not_found"
    [] status = <<408>> -> "timeout"
    [] status # <<>> /\ status # <<0>> /\ status[1] >= 500 -> "upstream_error"
    [] includes(toLowerCase(message), TIMEOUT) -> "timeout"
    [] OTHER -> "unknown_error"

hintOf(status) ==
  CASE status = <<401>> -> <<"Check MECHANIC_TOOL_TOKEN.">>
    [] status = <<403>> -> <<"Token lacks access or does not match the API instance.">>
    [] OTHER -> <<>>

normalizeApiError(error) ==
  [code |-> codeOf(error.status, messageOfError(error)),
   message |-> messageOfError(error),
   status |-> error.status,
   hint |-> hintOf(error.status)]

\* The error object of a response is of the schema's shape: status, where
\* there is one, is an integer.
errorParses(error) == error.status = <<>> \/ error.status[1] \in Int

\* lintTaskResponseSchema.parse(result) does not throw.
lintParses(data) ==
  /\ data.type = "object"
  /\ "valid" \in DOMAIN data /\ data.valid \in BOOLEAN
  /\ "task" \in DOMAIN data

\* previewTaskResponseSchema.parse(result) does not throw.
previewParses(data) ==
  /\ data.type = "object"
  /\ "task" \in DOMAIN data
  /\ "events" \in DOMAIN data

\* The catch block of lint_task and of preview_task.
failed(requests, error) ==
  [isError |-> TRUE,
   structuredContent |-> [error |-> normalizeApiError(error)],
   requests |-> requests,
   thrown |-> ~errorParses(normalizeApiError(error))]

\* The answer of lint_task or preview_task once callMechanicApi is back.
answered(called, parses) ==
  IF called.thrown # <<>> THEN failed(called.requests, called.thrown[1])
  ELSE IF ~parses THEN failed(called.requests, Error("ZodError", ZOD_REQUIRED, <<>>))
  ELSE [isError |-> FALSE, structuredContent |-> called.data,
        requests |-> called.requests, thrown |-> FALSE]

lintAnswer(called) ==
  answered(called, called.thrown = <<>> /\ lintParses(called.data))

\* The handler of lint_task.
lint_task(input, apiConfig, outcome) ==
  lintAnswer(callMechanicApi(apiConfig, "/api/tasks/lint", normalizeTaskPayload(input.task),
                             outcome))

PREVIEW_REQUIRES ==
  [code |-> "preview_requires_subscriptions",
   message |->
  <<"P", "r", "e", "v", "i", "e", "w", " ", "r", "e", "q", "u", "i", "r", "e", "s",
    " ", "s", "u", "b", "s", "c", "r", "i", "p", "t", "i", "o", "n", "s", "/", "s",
    "u", "b", "s", "c", "r", "i", "p", "t", "i", "o", "n", "s", "_", "t", "e", "m",
    "p", "l", "a", "t", "e", " ", "o", "r", " ", "p", "r", "e", "v", "i", "e", "w",
    "_", "e", "v", "e", "n", "t", "_", "d", "e", "f", "i", "n", "i", "t", "i", "o",
    "n", "s", ".">>,
   status |-> <<>>,
   hint |-> <<"Provide subscriptions or preview_event_definitions, or use lint_task for script-only work.">>]

previewAnswer(called) ==
  answered(called, called.thrown = <<>> /\ previewParses(called.data))

\* preview_task once the payload is normalized.
previewOf(task, apiConfig, outcome) ==
  IF ~hasPreviewInputs(task)
    THEN [isError |-> TRUE, structuredContent |-> [error |-> PREVIEW_REQUIRES],
          requests |-> <<>>, thrown |-> ~errorParses(PREVIEW_REQUIRES)]
    ELSE previewAnswer(callMechanicApi(apiConfig, "/api/tasks/preview", task, outcome))

\* The handler of preview_task.
preview_task(input, apiConfig, outcome) ==
  previewOf(normalizeTaskPayload(input.task), apiConfig, outcome)

\* ---------------------------------------------------------------- bounds

MaxDocs == 3
MaxOffset == 1
MaxLimit == 2
MaxPageSize == 2

\* The elements of a set of numbers, ascending.
ascending(S) == [k \in 1..Cardinality(S) |-> nth(S, k)]

\* The record lists indexed: the catalog's sub-lists of at most MaxDocs records.
Corpora ==
  { [i \in 1..Cardinality(S) |-> Catalog[ascending(S)[i]]] :
      S \in {T \in SUBSET DOMAIN Catalog : Cardinality(T) <= MaxDocs} }

Queries ==
  { <<"r", "e", "f", "u", "n", "d">>,
    <<"r", "e", "f", "n", "d">>,
    <<"t", "h", "e", " ", "o", "f">>,
    <<"t", "a", "g", " ", "O", "r", "d", "e", "r">>,
    <<"t", "a", "g", "s">>,
    <<"c", "o", "n", "s", "t", "r", "u", "c", "t", "o", "r">>,
    <<"t", "a", "g", "x">> }

Kinds == {<<>>, <<"doc">>, <<"task">>}

\* (tags, subscriptions) filters: undefined, an empty array, one or two values.
Filters ==
  { [tags |-> <<>>, subscriptions |-> <<>>],
    [tags |-> << <<>> >>, subscriptions |-> << <<>> >>],
    [tags |-> << << <<"o", "r", "d", "e", "r", "s">> >> >>, subscriptions |-> <<>>],
    [tags |-> << << <<"T", "a", "g", "s">>, <<"o", "r", "d", "e", "r", "s">> >> >>,
     subscriptions |-> <<>>],
    [tags |-> <<>>,
     subscriptions |-> << << <<"O", "r", "d", "e", "r", "s", "/", "C", "r", "e", "a", "t", "e">> >> >>] }

FuzzySettings ==
  { [fuzzy |-> <<>>, fuzzyMaxEdits |-> <<>>, fuzzyMaxCandidates |-> <<>>],
    [fuzzy |-> <<FALSE>>, fuzzyMaxEdits |-> <<1>>, fuzzyMaxCandidates |-> <<3>>],
    [fuzzy |-> <<TRUE>>, fuzzyMaxEdits |-> <<1>>, fuzzyMaxCandidates |-> <<1>>],
    [fuzzy |-> <<TRUE>>, fuzzyMaxEdits |-> <<2>>, fuzzyMaxCandidates |-> <<2>>] }

PagerFuzzySettings ==
  { [fuzzy |-> <<>>, fuzzyMaxEdits |-> <<>>, fuzzyMaxCandidates |-> <<>>],
    [fuzzy |-> <<TRUE>>, fuzzyMaxEdits |-> <<2>>, fuzzyMaxCandidates |-> <<2>>] }

Pagings ==
  {[offset |-> <<>>, limit |-> <<>>]}
    \cup {[offset |-> <<o>>, limit |-> <<l>>] : o \in 0..MaxOffset, l \in 1..MaxLimit}

searchOptions(query, kind, filter, fz, paging) ==
  [query |-> query, kind |-> kind,
   limit |-> paging.limit, offset |-> paging.offset,
   fuzzy |-> fz.fuzzy, fuzzyMaxEdits |-> fz.fuzzyMaxEdits,
   fuzzyMaxCandidates |-> fz.fuzzyMaxCandidates,
   tags |-> filter.tags, subscriptions |-> filter.subscriptions]

\* ------------------------------------------------------------ the core

\* records: the list handed to buildIndex; built: <<>> before the build,
\* <<index>> after; call: <<>> or the one searchAdvanced call made, with its
\* result; pager: <<>> or a client paging through one query.
VARIABLES records, built, call, pager

\* bundledRecords, prebuiltIndex: what loadBundledRecords and
\* loadPrebuiltIndex found at startup, <<>> for null; disk: the version of
\* each local working tree; store: the variable behind getStore();
\* resources: the registered doc resources; refreshing: where each caller's
\* refresh() stands; completed: the refreshes that have returned; response:
\* <<>> or the last answer sent; published: every store hydrateStore has
\* returned, in order; failures: the refreshes that have thrown; detached:
\* the repositories whose syncRepo still runs after Promise.all rejected;
\* trees: every state the two working trees have been in together.
VARIABLES bundledRecords, prebuiltIndex, disk, store, resources, refreshing,
          completed, response, published, failures, detached, trees

coreVars == <<records, built, call, pager>>

serverVars == <<bundledRecords, prebuiltIndex, disk, store, resources, refreshing,
                completed, response, published, failures, detached, trees>>

vars == <<records, built, call, pager, bundledRecords, prebuiltIndex, disk, store,
          resources, refreshing, completed, response, published, failures, detached,
          trees>>

CoreInit ==
  /\ records \in Corpora
  /\ built = <<>>
  /\ call = <<>>
  /\ pager = <<>>
  /\ bundledRecords = <<>>
  /\ prebuiltIndex = <<>>
  /\ disk = [repo \in {"docs", "tasks"} |-> 0]
  /\ store = hydrateStore(<<>>, <<>>, <<>>, <<>>, 0)
  /\ resources = <<>>
  /\ refreshing = [p \in {"timer", "tool"} |-> [pc |-> "idle", pending |-> {}, docs |-> <<>>, tasks |-> <<>>]]
  /\ completed = 0
  /\ response = <<>>
  /\ published = <<>>
  /\ failures = 0
  /\ detached = {}
  /\ trees = {}

BuildIndex ==
  /\ built = <<>>
  /\ built' = <<buildIndex(records)>>
  /\ UNCHANGED <<records, call, pager, serverVars>>

\* A plausible slip: the search reorders the documents of the index it
\* reads, built.documents.reverse() for a copy of it.
SearchReorderingIndex(options) ==
  /\ built # <<>>
  /\ call = <<>>
  /\ pager = <<>>
  /\ call' = <<[options |-> options, hits |-> searchAdvanced(built[1], options)]>>
  /\ built' = <<[built[1] EXCEPT !.documents =
                   [i \in DOMAIN @ |-> @[Len(@) + 1 - i]]]>>
  /\ UNCHANGED <<records, pager, serverVars>>

\* One call of searchAdvanced on the index.
Search(options) ==
  /\ built # <<>>
  /\ call = <<>>
  /\ pager = <<>>
  /\ call' = <<[options |-> options, hits |-> searchAdvanced(built[1], options)]>>
  /\ UNCHANGED <<records, built, pager, serverVars>>

\* A client paging through one query, k hits at a time: the next page ...
NextPage(options, k) ==
  /\ built # <<>>
  /\ call = <<>>
  /\ IF pager = <<>>
       THEN pager' = <<[options |-> options, k |-> k, whole |-> <<>>,
                        pages |-> <<searchAdvanced(built[1],
                                      [options EXCEPT !.offset = <<0>>, !.limit = <<k>>])>>]>>
       ELSE /\ pager[1].options = options
            /\ pager[1].k = k
            /\ Len(pager[1].pages) < 2
            /\ pager' = <<[pager[1] EXCEPT !.pages =
                            Append(@, searchAdvanced(built[1],
                                        [options EXCEPT !.offset = <<Len(pager[1].pages) * k>>,
                                                        !.limit = <<k>>]))]>>
  /\ UNCHANGED <<records, built, call, serverVars>>

\* ... and the same query asked for 2k hits at once.
WholePage ==
  /\ pager # <<>>
  /\ Len(pager[1].pages) = 2
  /\ pager[1].whole = <<>>
  /\ LET p == pager[1]
         o == [p.options EXCEPT !.offset = <<0>>, !.limit = <<2 * p.k>>]
     IN  pager' = <<[p EXCEPT !.whole = <<searchAdvanced(built[1], o)>>]>>
  /\ UNCHANGED <<records, built, call, serverVars>>

CoreNext ==
  \/ BuildIndex
  \/ \E q \in Queries, kind \in Kinds, f \in Filters, fz \in FuzzySettings, pg \in Pagings :
       Search(searchOptions(q, kind, f, fz, pg))
  \/ \E q \in Queries, kind \in Kinds, f \in Filters, fz \in PagerFuzzySettings, k \in 1..MaxPageSize :
       NextPage(searchOptions(q, kind, f, fz, [offset |-> <<>>, limit |-> <<>>]), k)
  \/ WholePage

SpecCore == CoreInit /\ [][CoreNext]_vars

\* ----------------------------------------------------------- the server

MaxVersion == 2
MaxRefreshes == 2
MaxToolLimit == 2
MaxToolOffset == 1

Repos == {"docs", "tasks"}

\* The callers of refresh(): the interval timer and the refresh_index tool.
Callers == {"timer", "tool"}

Idle == [pc |-> "idle", pending |-> {}, docs |-> <<>>, tasks |-> <<>>]

ToolQueries == { <<"r", "e", "f", "u", "n", "d">>, <<" ", "o", "r", "d", "e", "r">> }

\* Parsed tool inputs: the schema has filled in the fuzzy defaults.
ToolInputs ==
  { [query |-> q, limit |-> l, offset |-> o,
     fuzzy |-> TRUE, fuzzyMaxEdits |-> DEFAULT_FUZZY_MAX_EDITS,
     fuzzyMaxCandidates |-> DEFAULT_FUZZY_MAX_CANDIDATES,
     tags |-> <<>>, subscriptions |-> <<>>] :
      q \in ToolQueries, l \in 1..MaxToolLimit, o \in 0..MaxToolOffset }

\* getStore: () => store
getStore == store

\* A plausible slip: refresh updating the store it holds, field by field,
\* records first and the index when it is built.
assignRecordsFirst(current, hydrated) == [current EXCEPT !.records = hydrated.records]

\* store = await hydrateStore(...): the variable takes the new store whole.
assign(current, hydrated) == hydrated

\* The stores hydrated before the server starts: first by bootstrap, and
\* one more by the initial refresh() when there are no bundled records (the
\* working trees being what they were).
startupStores(bundled, first) ==
  IF bundled # <<>> THEN <<first>> ELSE <<first, [first EXCEPT !.lastIndexed = 2]>>

\* The state startMcpServer is called in: the store hydrated (twice, when
\* the first refresh ran), the doc resources registered, the timer set.
Init ==
  /\ bundledRecords \in {<<>>, <<BundledRecords>>}
  /\ prebuiltIndex \in {<<>>, <<PrebuiltIndex>>}
  /\ \E v \in 0..MaxVersion :
       /\ bundledRecords = <<>> => v = 1
       /\ disk = [repo \in Repos |-> v]
  /\ published = startupStores(bundledRecords,
                               hydrateStore(prebuiltIndex, bundledRecords,
                                            loadDocs(disk.docs), loadTasks(disk.tasks), 1))
  /\ store = published[Len(published)]
  /\ resources = docResources(store.records)
  /\ refreshing = [p \in Callers |-> Idle]
  /\ completed = 0
  /\ response = <<>>
  /\ failures = 0
  /\ detached = {}
  /\ trees = {disk}
  /\ records = <<>>
  /\ built = <<>>
  /\ call = <<>>
  /\ pager = <<>>

InFlight == {p \in Callers : refreshing[p].pc # "idle"}

Refreshed ==
  [tool |-> "refresh_index", input |-> <<>>, result |-> "Refreshed index", read |-> 0,
   failed |-> 0]

\* refresh() returns to its caller: the timer drops the result, the
\* refresh_index handler answers.
Return(p) ==
  /\ completed' = completed + 1
  /\ response' = IF p = "tool" THEN <<Refreshed>> ELSE response

\* refresh() is called: with bundled records it returns at once, otherwise
\* it starts both syncRepo calls.
StartRefresh(p) ==
  /\ refreshing[p].pc = "idle"
  /\ completed + failures + Cardinality(InFlight) < MaxRefreshes
  /\ IF bundledRecords # <<>>
       THEN /\ Return(p)
            /\ UNCHANGED refreshing
       ELSE /\ refreshing' = [refreshing EXCEPT ![p] = [Idle EXCEPT !.pc = "sync", !.pending = Repos]]
            /\ UNCHANGED <<completed, response>>
  /\ UNCHANGED <<bundledRecords, prebuiltIndex, disk, store, resources, published,
                 failures, detached, trees, coreVars>>

\* syncRepo(config) ends: the working tree is at commit v of origin's
\* branch, or where it was (no url configured, or nothing new upstream).
\* When both have ended, hydrateStore starts loadDocs and loadTasks.
syncRepo(p, repo, v) ==
  /\ refreshing[p].pc = "sync"
  /\ repo \in refreshing[p].pending
  /\ v >= disk[repo]
  /\ disk' = [disk EXCEPT ![repo] = v]
  /\ trees' = trees \cup {disk'}
  /\ refreshing' = [refreshing EXCEPT ![p] =
                      [@ EXCEPT !.pending = @ \ {repo},
                                !.pc = IF refreshing[p].pending = {repo} THEN "load" ELSE "sync"]]
  /\ UNCHANGED <<bundledRecords, prebuiltIndex, store, resources, completed, response,
                 published, failures, detached, coreVars>>

RefreshFailed ==
  [tool |-> "refresh_index", input |-> <<>>, result |-> "error", read |-> 0, failed |-> 0]

\* A plausible slip: refresh emptying the store before it syncs, so that a
\* refresh that throws leaves the empty store behind.
ThrowAfterReset(p) ==
  /\ failures' = failures + 1
  /\ refreshing' = [refreshing EXCEPT ![p] = Idle]
  /\ response' = IF p = "tool" THEN <<RefreshFailed>> ELSE response
  /\ store' = [store EXCEPT !.records = <<>>]
  /\ UNCHANGED <<published, completed>>

\* refresh() rejects: the timer's catch logs the error, the refresh_index
\* call ends in an error answer.  The store is not assigned.
Throw(p) ==
  /\ failures' = failures + 1
  /\ refreshing' = [refreshing EXCEPT ![p] = Idle]
  /\ response' = IF p = "tool" THEN <<RefreshFailed>> ELSE response
  /\ UNCHANGED <<store, published, completed>>

\* A git command of syncRepo(config) fails: Promise.all rejects at once,
\* the working tree is where it was, and the other syncRepo, if it has not
\* ended, runs on with nobody awaiting it.
syncRepoThrows(p, repo) ==
  /\ refreshing[p].pc = "sync"
  /\ repo \in refreshing[p].pending
  /\ detached' = detached \cup (refreshing[p].pending \ {repo})
  /\ Throw(p)
  /\ UNCHANGED <<bundledRecords, prebuiltIndex, disk, resources, trees, coreVars>>

\* A syncRepo nobody awaits ends.
detachedSync(repo, v) ==
  /\ repo \in detached
  /\ v >= disk[repo]
  /\ disk' = [disk EXCEPT ![repo] = v]
  /\ trees' = trees \cup {disk'}
  /\ detached' = detached \ {repo}
  /\ UNCHANGED <<bundledRecords, prebuiltIndex, store, resources, refreshing, completed,
                 response, published, failures, coreVars>>

\* hydrateStore returns to refresh(): the store is assigned, refresh returns.
Hydrated(p, hydrated) ==
  /\ published' = Append(published, hydrated)
  /\ store' = assign(store, hydrated)
  /\ refreshing' = [refreshing EXCEPT ![p] = Idle]
  /\ Return(p)

\* loadDocs or loadTasks ends.  When both have, hydrateStore builds the
\* index and returns, refresh assigns the store and returns.
Load(p, repo) ==
  /\ refreshing[p].pc = "load"
  /\ refreshing[p][repo] = <<>>
  /\ LET loaded == IF repo = "docs" THEN loadDocs(disk.docs) ELSE loadTasks(disk.tasks)
         r == [refreshing[p] EXCEPT ![repo] = <<loaded>>]
     IN  IF r.docs = <<>> \/ r.tasks = <<>>
           THEN /\ refreshing' = [refreshing EXCEPT ![p] = r]
                /\ UNCHANGED <<store, published, completed, response>>
           ELSE Hydrated(p, hydrateStore(prebuiltIndex, bundledRecords,
                                        r.docs[1], r.tasks[1], Len(published) + 1))
  /\ UNCHANGED <<bundledRecords, prebuiltIndex, disk, resources, failures, detached,
                 trees, coreVars>>

\* loadDocs or loadTasks throws (a file that cannot be read or parsed):
\* hydrateStore rejects, and refresh with it.
LoadThrows(p, repo) ==
  /\ refreshing[p].pc = "load"
  /\ refreshing[p][repo] = <<>>
  /\ Throw(p)
  /\ UNCHANGED <<bundledRecords, prebuiltIndex, disk, resources, detached, trees, coreVars>>

\* A handler that reads the store answers.  The handlers change nothing, so
\* one answer is followed per behaviour.  The answer is kept with the store
\* it was read from and the number of refreshes that had thrown by then.
Respond(tool, input, result) ==
  /\ response = <<>>
  /\ response' = <<[tool |-> tool, input |-> input, result |-> result,
                    read |-> getStore.lastIndexed, failed |-> failures]>>
  /\ UNCHANGED <<bundledRecords, prebuiltIndex, disk, store, resources, refreshing,
                 completed, published, failures, detached, trees, coreVars>>

SearchTasks(input) == Respond("search_tasks", input, search_tasks(getStore, input))

SearchDocs(input) == Respond("search_docs", input, search_docs(getStore, input))

SearchTaskExamples(input) ==
  Respond("search_task_examples", input, search_task_examples(getStore, input))

\* A client reads the i-th registered resource.
ReadResource(i) ==
  /\ i \in DOMAIN resources
  /\ Respond("resource", resources[i], readResource(getStore, resources[i]))

Next ==
  \/ \E p \in Callers : StartRefresh(p)
  \/ \E p \in Callers, repo \in Repos, v \in 0..MaxVersion : syncRepo(p, repo, v)
  \/ \E p \in Callers, repo \in Repos : syncRepoThrows(p, repo)
  \/ \E repo \in Repos, v \in 0..MaxVersion : detachedSync(repo, v)
  \/ \E p \in Callers, repo \in Repos : Load(p, repo)
  \/ \E p \in Callers, repo \in Repos : LoadThrows(p, repo)
  \/ \E input \in ToolInputs : SearchTasks(input)
  \/ \E input \in ToolInputs : SearchDocs(input)
  \/ \E input \in ToolInputs : SearchTaskExamples(input)
  \/ \E i \in DOMAIN resources : ReadResource(i)

Spec == Init /\ [][Next]_vars

\* ------------------------------------------- the pattern search alone

MaxMatchesValues == {1, 3}

\* Parsed inputs of search_task_examples that give a pattern: the schema
\* has filled in the defaults it declares.
\* The query and the tags of a call, and its pattern and patterns.
AskedOf == { [query |-> <<>>, tags |-> <<>>],
             [query |-> <<>>, tags |-> << <<P_order \o <<"s">> >> >>],
             [query |-> <<P_order>>, tags |-> <<>>] }

AskedFor == { [pattern |-> <<>>, patterns |-> <<P_log>>],
              [pattern |-> <<>>, patterns |-> <<P_log, P_cart>>],
              [pattern |-> <<>>, patterns |-> <<P_cart, <<" ">> \o P_log>>],
              [pattern |-> <<>>, patterns |-> <<P_order, P_none>>],
              [pattern |-> <<P_Log>>, patterns |-> <<P_log>>],
              [pattern |-> <<P_Log>>, patterns |-> <<P_cart, P_log>>] }

PatternInputs ==
  { [query |-> of.query, limit |-> l, offset |-> o,
     fuzzy |-> TRUE, fuzzyMaxEdits |-> DEFAULT_FUZZY_MAX_EDITS,
     fuzzyMaxCandidates |-> DEFAULT_FUZZY_MAX_CANDIDATES,
     tags |-> of.tags, subscriptions |-> <<>>,
     maxScriptChars |-> <<>>, pattern |-> for.pattern, patterns |-> for.patterns,
     matchMode |-> mode, patternCaseSensitive |-> cs, patternField |-> field,
     maxMatches |-> m, contextChars |-> 20] :
      of \in AskedOf, for \in AskedFor,
      l \in {1, 3}, o \in 0..MaxToolOffset,
      mode \in {"any", "all"}, cs \in BOOLEAN,
      field \in {"script", "all"}, m \in MaxMatchesValues }

\* The server with a store of tasks that carry code, hydrated once.
ExamplesInit ==
  /\ bundledRecords = <<>>
  /\ prebuiltIndex = <<>>
  /\ disk = [repo \in Repos |-> 1]
  /\ \E tasks \in ExampleCorpora :
       published = <<hydrateStore(prebuiltIndex, bundledRecords, <<>>, tasks, 1)>>
  /\ store = published[1]
  /\ resources = docResources(store.records)
  /\ refreshing = [p \in Callers |-> Idle]
  /\ completed = 0
  /\ response = <<>>
  /\ failures = 0
  /\ detached = {}
  /\ trees = {disk}
  /\ records = <<>>
  /\ built = <<>>
  /\ call = <<>>
  /\ pager = <<>>

\* search_task_examples is called with a pattern.
SearchTaskExamplesByPattern(input) ==
  /\ response = <<>>
  /\ patternsOf(input) # <<>>
  /\ Respond("search_task_examples", input, search_task_examples_by_pattern(getStore, input))

ExamplesNext == \E input \in PatternInputs : SearchTaskExamplesByPattern(input)

SpecExamples == ExamplesInit /\ [][ExamplesNext]_vars

\* -------------------------------------------------- the API tools alone

T_blank == <<" ">>

T_topics == <<"a", "\n", "b">>

\* The task payloads the tools are called with: the fields the handlers
\* read, each absent or of the type its schema allows.
TaskPayloads ==
  { [script |-> s, subscriptions |-> subs, subscriptions_template |-> t,
     preview_event_definitions |-> defs, online_store_javascript |-> js,
     order_status_javascript |-> Undefined] :
      s \in {Undefined, Str(<<"x">>)},
      subs \in {Undefined, Arr(<<>>), Arr(<< <<"a">> >>), Arr(<< <<>> >>)},
      t \in {Undefined, Str(<<>>), Str(T_blank), Str(T_topics)},
      defs \in {Undefined, Arr(<<>>), Arr(<<[description |-> "d"]>>)},
      js \in {Undefined, Null} }

\* The configuration of the API the server was created with: none, one
\* whose base URL is empty, one that names the API.
ApiConfigs ==
  { <<>>, <<[baseUrl |-> <<>>, token |-> <<>>]>>, <<[baseUrl |-> <<"u">>, token |-> <<"t">>]>> }

B_gateway ==
  <<" ", "G", "a", "t", "e", "w", "a", "y", " ", "t", "i", "m", "e", "o", "u", "t", " ">>

B_bad == <<"B", "a", "d", " ", "t", "a", "s", "k">>

\* The bodies of the responses of the API: none, text that is not JSON, a
\* JSON object with a message, a JSON object of the shape of a result.
Bodies ==
  { [kind |-> "empty"],
    [kind |-> "text", text |-> B_gateway],
    [kind |-> "json", value |-> [type |-> "object", message |-> B_bad]],
    [kind |-> "json",
     value |-> [type |-> "object", valid |-> TRUE, task |-> <<>>, events |-> <<>>]] }

Statuses == {200, 401, 403, 404, 408, 422, 500}

\* What becomes of a request: the timer aborts it, the network fails, or
\* a response arrives.
Outcomes ==
  {[kind |-> "abort"], [kind |-> "network"]}
    \cup {[kind |-> "response", status |-> status, body |-> body] :
            status \in Statuses, body \in Bodies}

\* No request is made.
NoFetch == [kind |-> "none"]

\* What can become of the request of a call: nothing where none is made.
outcomesOf(requested) == IF requested THEN Outcomes ELSE {NoFetch}

\* The server with an empty store; the tools of the API do not read it.
ApiInit ==
  /\ bundledRecords = <<>>
  /\ prebuiltIndex = <<>>
  /\ disk = [repo \in Repos |-> 1]
  /\ published = <<hydrateStore(prebuiltIndex, bundledRecords, <<>>, <<>>, 1)>>
  /\ store = published[1]
  /\ resources = docResources(store.records)
  /\ refreshing = [p \in Callers |-> Idle]
  /\ completed = 0
  /\ response = <<>>
  /\ failures = 0
  /\ detached = {}
  /\ trees = {disk}
  /\ records = <<>>
  /\ built = <<>>
  /\ call = <<>>
  /\ pager = <<>>

\* What a call of a tool of the API was made with: the task of its input,
\* the configuration of the server, and what became of its request.
callOf(task, apiConfig, outcome) == [task |-> task, apiConfig |-> apiConfig, outcome |-> outcome]

BuildTaskExport(task) ==
  Respond("build_task_export", callOf(task, <<>>, NoFetch), build_task_export([task |-> task]))

LintTask(task, apiConfig, outcome) ==
  /\ response = <<>>
  /\ outcome \in outcomesOf(configured(apiConfig))
  /\ Respond("lint_task", callOf(task, apiConfig, outcome),
             lint_task([task |-> task], apiConfig, outcome))

PreviewTask(task, apiConfig, outcome) ==
  /\ response = <<>>
  /\ outcome \in outcomesOf(configured(apiConfig) /\ hasPreviewInputs(normalizeTaskPayload(task)))
  /\ Respond("preview_task", callOf(task, apiConfig, outcome),
             preview_task([task |-> task], apiConfig, outcome))

ApiNext ==
  \/ \E task \in TaskPayloads : BuildTaskExport(task)
  \/ \E task \in TaskPayloads, apiConfig \in ApiConfigs, outcome \in Outcomes \cup {NoFetch} :
       LintTask(task, apiConfig, outcome)
  \/ \E task \in TaskPayloads, apiConfig \in ApiConfigs, outcome \in Outcomes \cup {NoFetch} :
       PreviewTask(task, apiConfig, outcome)

SpecApi == ApiInit /\ [][ApiNext]_vars

\* ---------------------------------------------------- claims on the core

Ids(hits) == [i \in DOMAIN hits |-> hits[i].id]

Q_refund == <<"r", "e", "f", "u", "n", "d">>

Q_refnd == <<"r", "e", "f", "n", "d">>

\* The call's page is the whole result list: offset 0, limit >= every document.
Unpaged(options) ==
  /\ withDefault(options.offset, DEFAULT_OFFSET) = 0
  /\ withDefault(options.limit, DEFAULT_LIMIT) >= Len(built[1].documents)

\* The documents a search for exactly the token t matches under the same
\* kind, tags and subscriptions.
MatchedBy(t, options) ==
  Ids(searchAdvanced(built[1],
        [options EXCEPT !.query = t, !.fuzzy = <<FALSE>>,
                        !.offset = <<0>>, !.limit = <<Len(built[1].documents)>>]))

\* The call is a fuzzy search for the single token q with maxEdits >= 1.
FuzzyCallFor(q) ==
  /\ call # <<>>
  /\ parseQuery(call[1].options.query) = <<q>>
  /\ withDefault(call[1].options.fuzzy, TRUE)
  /\ withDefault(call[1].options.fuzzyMaxEdits, DEFAULT_FUZZY_MAX_EDITS) >= 1
  /\ Unpaged(call[1].options)

ReturnedWithScore(id) ==
  \E i \in DOMAIN call[1].hits : call[1].hits[i].id = id /\ call[1].hits[i].score > 0

Vocabulary == Range(built[1].docFreq.keys)

\* The candidates that sort at or ahead of t for the query token q: the
\* literal q (distance 0) and every other vocabulary token at distance 1
\* that is at least as frequent as t.
AheadOf(t, q) ==
  {q} \cup {c \in Vocabulary \ {t} :
              /\ levenshtein(q, c) = 1
              /\ lookup(built[1].docFreq, c) >= lookup(built[1].docFreq, t)}

RecordOf(id) ==
  built[1].documents[CHOOSE i \in DOMAIN built[1].documents : built[1].documents[i].id = id].raw

\* The call carries a non-empty subscriptions filter.
SubscriptionsCall ==
  /\ call # <<>>
  /\ call[1].options.subscriptions # <<>>
  /\ Len(call[1].options.subscriptions[1]) > 0
  /\ Unpaged(call[1].options)

\* Every requested string occurs, case-insensitively, in the record's
\* subscription list joined to its subscription template; a doc has neither.
AllRequestedOccur(record, requested) ==
  LET text == IF record.kind = "task" THEN combinedSubscriptions(record) ELSE SPACE
  IN  \A i \in DOMAIN requested : includes(text, toLowerCase(requested[i]))

\* The same call without the subscriptions filter.
WithoutSubscriptions == searchAdvanced(built[1], [call[1].options EXCEPT !.subscriptions = <<>>])

\* C5, as stated: under a non-empty subscriptions filter a document of
\* either kind passes if and only if every requested string occurs in its
\* subscriptions and template, so a document without subscriptions does not.
C5_SubscriptionsEitherKind ==
  SubscriptionsCall =>
    call[1].hits = SelectSeq(WithoutSubscriptions,
                     LAMBDA h : AllRequestedOccur(RecordOf(h.id), call[1].options.subscriptions[1]))

\* C5, amended: a task passes if and only if every requested string occurs
\* in its subscriptions and template; a doc always passes.
C5_SubscriptionsTasksOnly ==
  SubscriptionsCall =>
    call[1].hits = SelectSeq(WithoutSubscriptions,
                     LAMBDA h : \/ h.kind = "doc"
                                \/ AllRequestedOccur(RecordOf(h.id), call[1].options.subscriptions[1]))

\* A filtered call kept a task that has the subscription, dropped one that
\* has not, and kept a doc.
C5_Witness ==
  /\ SubscriptionsCall
  /\ \E i \in DOMAIN call[1].hits : call[1].hits[i].kind = "task"
  /\ \E i \in DOMAIN call[1].hits : call[1].hits[i].kind = "doc"
  /\ Len(call[1].hits) < Len(WithoutSubscriptions)

ScenarioRecords == <<DocRefund, TaskRefundOrder>>

\* The two-record scenario: "refund", kind unset, no filter, both on the page.
ScenarioCall ==
  /\ call # <<>>
  /\ records = ScenarioRecords
  /\ call[1].options.query = Q_refund
  /\ call[1].options.kind = <<>>
  /\ call[1].options.tags = <<>>
  /\ call[1].options.subscriptions = <<>>
  /\ Unpaged(call[1].options)

\* C6, as stated: both records are returned and the doc is ranked first.
C6_DocRanksFirst ==
  ScenarioCall => Ids(call[1].hits) = <<DocRefund.id, TaskRefundOrder.id>>

\* C6, amended: both records are returned and the task is ranked first, its
\* title+slug weights (5 + 4) outweighing the doc's title+content (5 + 1.5).
C6_TaskRanksFirst ==
  ScenarioCall =>
    /\ Ids(call[1].hits) = <<TaskRefundOrder.id, DocRefund.id>>
    /\ call[1].hits[1].score > call[1].hits[2].score
    /\ call[1].hits[2].score > 0

C6_Witness ==
  /\ ScenarioCall
  /\ Len(call[1].hits) = 2
  /\ withDefault(call[1].options.fuzzy, TRUE)

\* C7: the hits of (offset 0, limit k) followed by those of (offset k,
\* limit k) are the hits of (offset 0, limit 2k).
C7_PaginationConsistency ==
  (pager # <<>> /\ pager[1].whole # <<>>) =>
    pager[1].pages[1] \o pager[1].pages[2] = pager[1].whole[1]

\* Both pages were fetched, neither empty, and the whole list.
C7_Witness ==
  /\ pager # <<>>
  /\ pager[1].whole # <<>>
  /\ Len(pager[1].pages[1]) = pager[1].k
  /\ Len(pager[1].pages[2]) > 0
  /\ pager[1].k > 1

\* The documents of the index that pass the filters and that scoring keeps.
Kept(options) ==
  {i \in DOMAIN built[1].documents :
     /\ tagsPass(built[1].documents[i], options.tags)
     /\ subscriptionsPass(built[1].documents[i], options.subscriptions)
     /\ scoreDocument(built[1].documents[i], searchCandidates(built[1], options),
                      built[1], options.kind) # <<>>}

Min(a, b) == IF a <= b THEN a ELSE b

Max(a, b) == IF a >= b THEN a ELSE b

\* C8: searchAdvanced returns min(l, max(0, n - o)) hits, n the number of
\* documents kept; they are the elements o .. o+l-1 of the sorted list and
\* no document is returned twice.
C8_PageLength ==
  call # <<>> =>
    LET options == call[1].options
        o == withDefault(options.offset, DEFAULT_OFFSET)
        l == withDefault(options.limit, DEFAULT_LIMIT)
        n == Cardinality(Kept(options))
        sorted == sortedScored(built[1], options, searchCandidates(built[1], options))
        hits == call[1].hits
    IN  /\ Len(hits) = Min(l, Max(0, n - o))
        /\ Len(sorted) = n
        /\ \A i \in DOMAIN hits :
             /\ hits[i].id = sorted[o + i].doc.id
             /\ hits[i].score = sorted[o + i].score
        /\ \A i, j \in DOMAIN hits : hits[i].id = hits[j].id => i = j

\* A page cut at both ends: an offset > 0 and more documents after it.
C8_Witness ==
  /\ call # <<>>
  /\ withDefault(call[1].options.offset, DEFAULT_OFFSET) > 0
  /\ Len(call[1].hits) = withDefault(call[1].options.limit, DEFAULT_LIMIT)
  /\ Cardinality(Kept(call[1].options))
       > withDefault(call[1].options.offset, DEFAULT_OFFSET) + Len(call[1].hits)

\* The tokens of a record, field by field, from the text.
TokensOf(doc) == UNION {Range(tokenize(doc.fieldText[f])) : f \in DOMAIN doc.fieldText}

\* C10: docFreq[t] is the number of documents that hold t in any field, a
\* token held by none has no entry, and totalDocuments is the number of
\* records given.
C10_DocFreq ==
  (built # <<>> /\ call = <<>> /\ pager = <<>>) =>
    LET index == built[1]
        holders(t) == {i \in DOMAIN index.documents : t \in TokensOf(index.documents[i])}
        all == UNION {TokensOf(index.documents[i]) : i \in DOMAIN index.documents}
    IN  /\ DOMAIN index.docFreq.count = all
        /\ Range(index.docFreq.keys) = all
        /\ \A t \in all : index.docFreq.count[t] = Cardinality(holders(t))
        /\ index.totalDocuments = Len(records)
        /\ Len(index.documents) = Len(records)

\* The options carry no kind, tags or subscriptions filter.
Unfiltered(options) ==
  /\ options.kind = <<>>
  /\ options.tags \in {<<>>, << <<>> >>}
  /\ options.subscriptions \in {<<>>, << <<>> >>}

\* The call searches for one token, exactly: fuzzy off, no filter, the
\* whole result list on the page.
ExactCall ==
  /\ call # <<>>
  /\ Len(parseQuery(call[1].options.query)) = 1
  /\ call[1].options.fuzzy = <<FALSE>>
  /\ Unfiltered(call[1].options)
  /\ Unpaged(call[1].options)

\* C11: an exact search for a token returns, with a score > 0, every
\* document whose title holds the token.
C11_ExactMatch ==
  ExactCall =>
    \A i \in DOMAIN built[1].documents :
      parseQuery(call[1].options.query)[1] \in Range(tokenize(built[1].documents[i].raw.title))
        => ReturnedWithScore(built[1].documents[i].id)

\* The record passes the kind, tags and subscriptions filters of the
\* options: it is of the kind asked for, carries every requested tag in some
\* case, and, being a task, every requested subscription.
PassesFilters(record, options) ==
  /\ options.kind = <<>> \/ record.kind = options.kind[1]
  /\ options.tags = <<>>
       \/ \A i \in DOMAIN options.tags[1] :
            \E j \in DOMAIN record.tags :
              toLowerCase(record.tags[j]) = toLowerCase(options.tags[1][i])
  /\ \/ options.subscriptions = <<>>
     \/ record.kind = "doc"
     \/ AllRequestedOccur(record, options.subscriptions[1])

\* The ids of the documents of the index, in corpus order.
CorpusIds == [i \in DOMAIN built[1].documents |-> built[1].documents[i].id]

\* The call's query tokenizes to no token.
EmptyQueryCall ==
  /\ call # <<>>
  /\ parseQuery(call[1].options.query) = <<>>

\* The elements offset .. offset+limit-1 (0-based) of ids.
PageOf(ids, options) ==
  SubSeq(ids, withDefault(options.offset, DEFAULT_OFFSET) + 1,
         Min(Len(ids), withDefault(options.offset, DEFAULT_OFFSET)
                         + withDefault(options.limit, DEFAULT_LIMIT)))

\* C12, as stated: a query of no token returns the [offset, offset+limit)
\* slice of all documents in corpus order, each with score 0.
C12_EmptyQueryAllDocuments ==
  EmptyQueryCall =>
    /\ Ids(call[1].hits) = PageOf(CorpusIds, call[1].options)
    /\ \A i \in DOMAIN call[1].hits : call[1].hits[i].score = 0

\* C12, amended: it returns that slice of the documents that pass the
\* kind, tags and subscriptions filters, in corpus order, each with score 0.
C12_EmptyQueryFiltered ==
  EmptyQueryCall =>
    /\ Ids(call[1].hits) =
         PageOf(SelectSeq(CorpusIds, LAMBDA id : PassesFilters(RecordOf(id), call[1].options)),
                call[1].options)
    /\ \A i \in DOMAIN call[1].hits : call[1].hits[i].score = 0

\* A query of stop words only, under a kind filter that drops a document,
\* returned a page that starts after the first document kept.
C12_Witness ==
  /\ EmptyQueryCall
  /\ call[1].options.kind # <<>>
  /\ \E i \in DOMAIN built[1].documents : built[1].documents[i].kind # call[1].options.kind[1]
  /\ withDefault(call[1].options.offset, DEFAULT_OFFSET) > 0
  /\ Len(call[1].hits) > 0

\* The call's query has at least one token and its page is the whole list.
TokenCall ==
  /\ call # <<>>
  /\ Len(parseQuery(call[1].options.query)) >= 1
  /\ Unpaged(call[1].options)

\* The score the document accumulates over the candidates of the call.
Accumulated(doc) ==
  sumTokens(doc, searchCandidates(built[1], call[1].options), built[1])

\* The score of the document id in hits; 0 when it is not among them.
ScoreIn(hits, id) ==
  IF \E i \in DOMAIN hits : hits[i].id = id
    THEN hits[CHOOSE i \in DOMAIN hits : hits[i].id = id].score
    ELSE 0

\* What each token of tokens, searched for alone under the call's other
\* options, gives the document id; summed over the tokens.
RECURSIVE SumOfTokenScores(_, _)
SumOfTokenScores(tokens, id) ==
  IF Len(tokens) = 0 THEN 0
  ELSE plus(ScoreIn(searchAdvanced(built[1], [call[1].options EXCEPT !.query = tokens[1]]), id),
            SumOfTokenScores(Tail(tokens), id))

\* C13: for a query of at least one token, a document that passes the
\* filters is returned if and only if its accumulated score is > 0, and the
\* score of a hit is the sum of what each query token contributes alone, so
\* one matching token of several is enough.
C13_ReturnedIffPositive ==
  TokenCall =>
    /\ \A i \in DOMAIN built[1].documents :
         PassesFilters(built[1].documents[i].raw, call[1].options) =>
           ( (built[1].documents[i].id \in Range(Ids(call[1].hits)))
               <=> Accumulated(built[1].documents[i]) > 0 )
    /\ \A i \in DOMAIN call[1].hits :
         /\ PassesFilters(RecordOf(call[1].hits[i].id), call[1].options)
         /\ call[1].hits[i].score
              = SumOfTokenScores(parseQuery(call[1].options.query), call[1].hits[i].id)

\* The call carries a non-empty tags filter; the whole list is on the page.
TagsCall ==
  /\ call # <<>>
  /\ call[1].options.tags # <<>>
  /\ Len(call[1].options.tags[1]) > 0
  /\ Unpaged(call[1].options)

\* The record carries the tag, in some case.
HasTag(record, tag) ==
  \E j \in DOMAIN record.tags : toLowerCase(record.tags[j]) = toLowerCase(tag)

HasEveryTag(record, requested) ==
  \A i \in DOMAIN requested : HasTag(record, requested[i])

\* The same call with another tags filter.
WithTags(tags) == searchAdvanced(built[1], [call[1].options EXCEPT !.tags = tags])

\* C14: under a non-empty tags filter the hits are those of the unfiltered
\* call that carry every requested tag, whatever their rank; an absent tags
\* filter and an empty one return the same hits.
C14_TagsAnd ==
  /\ TagsCall =>
       /\ \A i \in DOMAIN call[1].hits :
            HasEveryTag(RecordOf(call[1].hits[i].id), call[1].options.tags[1])
       /\ call[1].hits = SelectSeq(WithTags(<<>>),
                           LAMBDA h : HasEveryTag(RecordOf(h.id), call[1].options.tags[1]))
  /\ (call # <<>> /\ call[1].options.tags \in {<<>>, << <<>> >>}) =>
       /\ call[1].hits = WithTags(<<>>)
       /\ call[1].hits = WithTags(<< <<>> >>)

\* Two tags were asked for, one in another case than the document's; the
\* best hit of the unfiltered call lacks one of them and is gone, a lower
\* one has both and is kept.
C14_Witness ==
  /\ TagsCall
  /\ Len(call[1].options.tags[1]) = 2
  /\ Len(call[1].hits) > 0
  /\ Len(parseQuery(call[1].options.query)) > 0
  /\ \E j \in DOMAIN RecordOf(call[1].hits[1].id).tags :
       RecordOf(call[1].hits[1].id).tags[j] \notin Range(call[1].options.tags[1])
  /\ WithTags(<<>>)[1].id # call[1].hits[1].id
  /\ WithTags(<<>>)[1].score > call[1].hits[1].score

\* The call carries a kind filter; the whole list is on the page.
KindCall ==
  /\ call # <<>>
  /\ call[1].options.kind # <<>>
  /\ Unpaged(call[1].options)

\* The same call without the kind filter.
WithoutKind == searchAdvanced(built[1], [call[1].options EXCEPT !.kind = <<>>])

\* C15: under a kind filter every hit has that kind; a document of the
\* other kind gets no score at all, whatever the query; and the hits are
\* those of the call without the filter that have the kind, with the same
\* scores (none of them: the empty list).
C15_KindFilter ==
  KindCall =>
    /\ \A i \in DOMAIN call[1].hits : call[1].hits[i].kind = call[1].options.kind[1]
    /\ \A i \in DOMAIN built[1].documents :
         built[1].documents[i].kind # call[1].options.kind[1] =>
           scoreDocument(built[1].documents[i], searchCandidates(built[1], call[1].options),
                         built[1], call[1].options.kind) = <<>>
    /\ call[1].hits = SelectSeq(WithoutKind, LAMBDA h : h.kind = call[1].options.kind[1])

\* A kind filter dropped the best hit of the unfiltered call and kept
\* another.
C15_Witness ==
  /\ KindCall
  /\ Len(call[1].hits) > 0
  /\ Len(parseQuery(call[1].options.query)) > 0
  /\ WithoutKind[1].kind # call[1].options.kind[1]
  /\ WithoutKind[1].score > call[1].hits[1].score

\* The call is a fuzzy search.
FuzzyCall ==
  /\ call # <<>>
  /\ withDefault(call[1].options.fuzzy, TRUE)

MaxEditsOf(options) == withDefault(options.fuzzyMaxEdits, DEFAULT_FUZZY_MAX_EDITS)

MaxCandidatesOf(options) ==
  withDefault(options.fuzzyMaxCandidates, DEFAULT_FUZZY_MAX_CANDIDATES)

\* The candidate lists of the call, one per query token.
CandidatesOfCall == searchCandidates(built[1], call[1].options)

\* The edit distance from q of q itself and of every vocabulary token.
DistancesFrom(q) == [t \in Vocabulary \cup {q} |-> levenshtein(q, t)]

\* The tokens that may stand for the query token: those within maxEdits,
\* dist being the distances from it.
Eligible(dist) == {t \in DOMAIN dist : dist[t] <= MaxEditsOf(call[1].options)}

\* c sorts no later than d: nearer, or as near and in at least as many
\* documents.
NoLater(dist, c, d) ==
  \/ dist[c] < dist[d]
  \/ /\ dist[c] = dist[d]
     /\ lookup(built[1].docFreq, c) >= lookup(built[1].docFreq, d)

\* The position of a token in the vocabulary.
VocabularyIndex(t) ==
  CHOOSE i \in DOMAIN built[1].docFreq.keys : built[1].docFreq.keys[i] = t

\* cands is the candidate list the claim describes for the query token
\* whose distances are dist.
IsCandidateList(cands, dist) ==
  /\ \A i \in DOMAIN cands :
       /\ cands[i].token \in Eligible(dist)
       /\ cands[i].distance = dist[cands[i].token]
       /\ cands[i].distance <= MaxEditsOf(call[1].options)
       /\ cands[i].weight10 = CASE cands[i].distance = 0 -> 10
                                [] cands[i].distance = 1 -> 6
                                [] cands[i].distance = 2 -> 3
  /\ \A i, j \in DOMAIN cands :
       i < j => /\ cands[i].token # cands[j].token
                /\ NoLater(dist, cands[i].token, cands[j].token)
  /\ Len(cands) <= MaxCandidatesOf(call[1].options)
  /\ Len(cands) = Min(MaxCandidatesOf(call[1].options), Cardinality(Eligible(dist)))
  /\ \A t \in Eligible(dist) \ {cands[i].token : i \in DOMAIN cands} :
       \A i \in DOMAIN cands : NoLater(dist, cands[i].token, t)

\* Every list of tc is the candidate list of its query token.
AreCandidateLists(tc) ==
  \A k \in DOMAIN tc :
    /\ tc[k].queryToken = parseQuery(call[1].options.query)[k]
    /\ IsCandidateList(tc[k].candidates, DistancesFrom(tc[k].queryToken))

CutOnFrequency(cands, dist) ==
  /\ Len(cands) = 2
  /\ cands[2].distance = 1
  /\ \E t \in Eligible(dist) \ {cands[1].token, cands[2].token} :
       /\ dist[t] = 1
       /\ lookup(built[1].docFreq, t) < lookup(built[1].docFreq, cands[2].token)
       /\ VocabularyIndex(t) < VocabularyIndex(cands[2].token)

SomeCutOnFrequency(tc) ==
  \E k \in DOMAIN tc : CutOnFrequency(tc[k].candidates, DistancesFrom(tc[k].queryToken))

LedByLiteral(cands, q) ==
  /\ Len(cands) >= 1
  /\ cands[1] = literalCandidate(q)

\* Every list of tc is led by its query token, and is that entry alone
\* when the search is not fuzzy.
HaveLiteral(tc, tokens, fuzzy) ==
  /\ Len(tc) = Len(tokens)
  /\ \A k \in DOMAIN tc :
       /\ tc[k].queryToken = tokens[k]
       /\ IF fuzzy
            THEN LedByLiteral(tc[k].candidates, tokens[k])
            ELSE tc[k].candidates = <<literalCandidate(tokens[k])>>

\* C17: the literal query token is always a candidate. A fuzzy search
\* lists it first, at distance 0 and weight 1, whether or not the
\* vocabulary has it, so no candidate list is empty; a search that is not
\* fuzzy lists it alone.
C17_LiteralCandidate ==
  call # <<>> =>
    HaveLiteral(CandidatesOfCall, parseQuery(call[1].options.query),
                withDefault(call[1].options.fuzzy, TRUE))

\* Nothing of the vocabulary is within maxEdits of the query token of
\* list k, and the list is the literal token alone.
OnlyLiteral(tc, k) ==
  /\ tc[k].queryToken \notin Vocabulary
  /\ Eligible(DistancesFrom(tc[k].queryToken)) = {tc[k].queryToken}
  /\ tc[k].candidates = <<literalCandidate(tc[k].queryToken)>>

SomeOnlyLiteral(tc) == \E k \in DOMAIN tc : OnlyLiteral(tc, k)

\* A fuzzy search over a vocabulary that is not empty finds nothing within
\* budget for one of its tokens.
C17_Witness ==
  /\ FuzzyCall
  /\ Vocabulary # {}
  /\ SomeOnlyLiteral(CandidatesOfCall)

\* x is a number.
IsNumber(x) == x # NaN

\* x >= y, which is false when either is not a number.
AtLeast(x, y) == IsNumber(x) /\ IsNumber(y) /\ x >= y

\* The position of the document id in the corpus.
PositionOf(id) == CHOOSE i \in DOMAIN CorpusIds : CorpusIds[i] = id

\* hits is in descending order of score, hits of one score in corpus order.
Ranked(hits) ==
  \A i \in 1..(Len(hits) - 1) :
    /\ AtLeast(hits[i].score, hits[i + 1].score)
    /\ hits[i].score = hits[i + 1].score => PositionOf(hits[i].id) < PositionOf(hits[i + 1].id)

\* C18: the hits of a search are in descending order of score, each score
\* >= the next, and hits of equal score keep their corpus order.
C18_RankedByScore == call # <<>> => Ranked(call[1].hits)

\* C19: the score of every hit of a search is a number >= 0.
C19_ScoreIsNumber ==
  call # <<>> =>
    \A i \in DOMAIN call[1].hits :
      /\ IsNumber(call[1].hits[i].score)
      /\ call[1].hits[i].score >= 0

\* x > y, which is false when either is not a number.
Greater(x, y) == IsNumber(x) /\ IsNumber(y) /\ x > y

\* The tokens with as many further occurrences of t as they hold.
TwiceOver(tokens, t) == tokens \o [i \in 1..occurrences(tokens, t) |-> t]

\* The indexed document with the occurrences of t in the field doubled and
\* nothing else changed.
Doubled(doc, field, t) ==
  [doc EXCEPT !.tokenFreq[field] = tally(TwiceOver(tokenize(doc.fieldText[field]), t))]

\* The candidate tokens of tc.
CandidateTokens(tc) ==
  UNION {{tc[k].candidates[c].token : c \in DOMAIN tc[k].candidates} : k \in DOMAIN tc}

\* Doubling any token that tc matches in any field of doc raises the
\* score of doc, the index being the same.
RaisedByDoubling(doc, tc) ==
  \A i \in DOMAIN Fields :
    \A t \in CandidateTokens(tc) \cap Range(tokenize(doc.fieldText[Fields[i]])) :
      Greater(sumTokens(Doubled(doc, Fields[i], t), tc, built[1]),
              sumTokens(doc, tc, built[1]))

AllRaisedByDoubling(tc) ==
  \A i \in DOMAIN built[1].documents : RaisedByDoubling(built[1].documents[i], tc)

\* C20: with the query and the document frequencies fixed, doubling the
\* occurrence count of a matched token in one field of a document strictly
\* increases the score of that document.
C20_Monotonicity == call # <<>> => AllRaisedByDoubling(CandidatesOfCall)

\* The options of the pager's n-th page of k hits.
PageOptions(p, n) ==
  [p.options EXCEPT !.offset = <<(n - 1) * p.k>>, !.limit = <<p.k>>]

\* Every search made so far, made again now, returns the hits it returned.
Repeatable ==
  /\ call # <<>> => call[1].hits = searchAdvanced(built[1], call[1].options)
  /\ pager # <<>> =>
       /\ \A n \in DOMAIN pager[1].pages :
            pager[1].pages[n] = searchAdvanced(built[1], PageOptions(pager[1], n))
       /\ pager[1].whole # <<>> =>
            pager[1].whole[1] =
              searchAdvanced(built[1],
                             [pager[1].options EXCEPT !.offset = <<0>>,
                                                      !.limit = <<2 * pager[1].k>>])

NineFields ==
  {"title", "tags", "content", "slug", "headings", "section", "events", "actions", "scopes"}

\* The fields that do not apply to records of the kind.
NotApplying(kind) ==
  IF kind = "doc" THEN {"slug", "events", "actions", "scopes"} ELSE {"headings", "section"}

\* The tokens of the corpus the index was built over.
CorpusTokens == UNION {TokensOf(built[1].documents[i]) : i \in DOMAIN built[1].documents}

\* What tokenFreq[field][t] reads for the tokens ts is the number of
\* occurrences of t in the tokens of the field's text.
CountsOccurrences(doc, field, ts) ==
  \A t \in ts :
    /\ IsNumber(lookup(doc.tokenFreq[field], t))
    /\ lookup(doc.tokenFreq[field], t) = occurrences(tokenize(doc.fieldText[field]), t)

\* The indexed document has the nine fields, those that do not apply to
\* its kind empty, and counts the tokens ts right in each.
FullyIndexed(doc, ts) ==
  /\ DOMAIN doc.fieldText = NineFields
  /\ DOMAIN doc.tokenFreq = NineFields
  /\ \A f \in NotApplying(doc.kind) :
       /\ doc.fieldText[f] = <<>>
       /\ doc.tokenFreq[f].keys = <<>>
       /\ DOMAIN doc.tokenFreq[f].count = {}
  /\ \A f \in NineFields :
       /\ Range(doc.tokenFreq[f].keys) = Range(tokenize(doc.fieldText[f]))
       /\ CountsOccurrences(doc, f, ts)

\* C22: every document of a built index has each of the nine fields in
\* fieldText and in tokenFreq, a field that does not apply to its kind
\* with empty text and an empty count map, and tokenFreq[field][t] the
\* number of occurrences of t in the tokenization of fieldText[field].
C22_FieldsAndCounts ==
  built # <<>> =>
    \A i \in DOMAIN built[1].documents : FullyIndexed(built[1].documents[i], CorpusTokens)

\* -------------------------------------------------- claims on the server

SearchTools == {"search_tasks", "search_docs", "search_task_examples"}

\* The last answer is a search tool's.
SearchAnswer == response # <<>> /\ response[1].tool \in SearchTools

\* The options the answering handler handed to searchStoreAdvanced.
AnswerOptions ==
  LET a == response[1]
  IN  CASE a.tool = "search_tasks" -> toolOptions(a.input, "task")
        [] a.tool = "search_docs" -> toolOptions(a.input, "doc")
        [] OTHER -> [toolOptions(a.input, "task") EXCEPT !.query = trim(a.input.query)]

\* The documents of an index a search keeps: they pass the filters and score.
KeptIn(index, options) ==
  {i \in DOMAIN index.documents :
     /\ tagsPass(index.documents[i], options.tags)
     /\ subscriptionsPass(index.documents[i], options.subscriptions)
     /\ scoreDocument(index.documents[i], searchCandidates(index, options),
                      index, options.kind) # <<>>}

\* C1, as stated: a search tool's answer carries nextOffset exactly when
\* more matching documents remain after the page (their number exceeds
\* offset + limit), and then nextOffset is offset + limit.
C1_NextOffsetIffMore ==
  SearchAnswer =>
    LET a == response[1]
        n == Cardinality(KeptIn(published[a.read].index, AnswerOptions))
    IN  /\ a.result.nextOffset # <<>> <=> n > a.input.offset + a.input.limit
        /\ a.result.nextOffset # <<>> => a.result.nextOffset[1] = a.input.offset + a.input.limit

\* The records the local sources hold.
LocalRecords(versions) == loadDocs(versions.docs) \o loadTasks(versions.tasks)

\* C2, as stated, for a refresh that ran alone (the first to return, none
\* other in flight): when it returns, the store holds the records of the
\* local sources and an index built over them, whatever was loaded at startup.
C2_RefreshRebuilds ==
  [][(completed = 0 /\ completed' = 1 /\ \A p \in Callers : refreshing'[p].pc = "idle")
       => /\ store'.records = LocalRecords(disk')
          /\ store'.index = buildIndex(LocalRecords(disk'))]_vars

\* What a handler answers on the store st.
AnswerOn(st, tool, input) ==
  CASE tool = "search_tasks" -> search_tasks(st, input)
    [] tool = "search_docs" -> search_docs(st, input)
    [] tool = "search_task_examples" -> search_task_examples(st, input)
    [] tool = "resource" -> readResource(st, input)

\* C3: the store served is always one whole result of hydrateStore, whose
\* index is complete (the prebuilt one, or built over all its records); and
\* every answer is what its handler computes from the records and the index
\* of one such store, the one it read first.
C3_OneSnapshot ==
  /\ store.lastIndexed \in DOMAIN published
  /\ store = published[store.lastIndexed]
  /\ \A k \in DOMAIN published :
       \/ published[k].index = buildIndex(published[k].records)
       \/ prebuiltIndex # <<>> /\ published[k].index = prebuiltIndex[1]
  /\ (response # <<>> /\ response[1].tool # "refresh_index") =>
       /\ response[1].read \in DOMAIN published
       /\ response[1].result =
            AnswerOn(published[response[1].read], response[1].tool, response[1].input)

\* A search answered from the store one refresh swapped in, before a later
\* refresh swapped in a store with other records.
C3_Witness ==
  /\ response # <<>>
  /\ response[1].tool = "search_tasks"
  /\ Len(response[1].result.items) > 0
  /\ response[1].read > 2
  /\ store.lastIndexed > response[1].read
  /\ store.records # published[response[1].read].records

\* The ids the registered resources decode to.
ResourceIds ==
  {decodeUri(stripPrefix(resources[i].uri, RESOURCE_SCHEME)) : i \in DOMAIN resources}

\* The ids of the doc records in the store.
StoreDocIds ==
  {store.records[i].id : i \in {j \in DOMAIN store.records : store.records[j].kind = "doc"}}

\* C9, as stated: with no refresh in flight, the registered doc resources
\* are the doc records of the current store.
C9_ResourcesMatchStore ==
  (\A p \in Callers : refreshing[p].pc = "idle") => ResourceIds = StoreDocIds

\* The ids of the records, or of the indexed documents, of the kind.
IdsOfKind(items, kind) == {items[i].id : i \in {j \in DOMAIN items : items[j].kind = kind}}

\* The documents of the store's index are its records, id for id and kind
\* for kind, each once.
IndexMatchesRecords(st) ==
  /\ Len(st.index.documents) = Len(st.records)
  /\ Cardinality({st.records[i].id : i \in DOMAIN st.records}) = Len(st.records)
  /\ \A kind \in {"doc", "task"} :
       IdsOfKind(st.index.documents, kind) = IdsOfKind(st.records, kind)

\* Every hit of a search answer is a record of the store the handler read,
\* of the kind the tool searches.
HitsResolve ==
  SearchAnswer =>
    Range(Ids(searchStoreAdvanced(published[response[1].read], AnswerOptions)))
      \subseteq IdsOfKind(published[response[1].read].records, AnswerOptions.kind[1])

\* C23: in every store published, at startup or by a refresh, the
\* documents of the index correspond one-to-one by id to the records, so
\* that every hit of a search is a record of the same kind in that store.
C23_IndexOverRecords ==
  /\ \A k \in DOMAIN published : IndexMatchesRecords(published[k])
  /\ HitsResolve

\* A refresh of the caller p throws in this step.
Throws(p) == failures' = failures + 1 /\ refreshing[p].pc # "idle" /\ refreshing'[p].pc = "idle"

\* The timer can call refresh() whenever its last call has returned or
\* thrown (within the number of refreshes followed).
TimerStillRuns ==
  (refreshing["timer"].pc = "idle"
     /\ completed + failures + Cardinality(InFlight) < MaxRefreshes)
    => ENABLED StartRefresh("timer")

\* C24: a refresh that throws, in syncRepo or in loading the records, for
\* the timer or for refresh_index, leaves the store as it was, so that the
\* queries after it are answered from the store published before it; and
\* the timer goes on calling refresh().
C24_FailedRefreshKeepsStore ==
  /\ [][(failures' # failures) =>
          /\ \E p \in Callers : Throws(p)
          /\ store' = store
          /\ published' = published
          /\ resources' = resources]_vars
  /\ [](store = published[store.lastIndexed])
  /\ [](response # <<>> /\ response[1].tool # "refresh_index" =>
          response[1].result =
            AnswerOn(published[response[1].read], response[1].tool, response[1].input))
  /\ []TimerStillRuns

\* A search is answered after a refresh has thrown, from a store that a
\* refresh had swapped in.
C24_Witness ==
  /\ response # <<>>
  /\ response[1].tool = "search_tasks"
  /\ response[1].failed >= 1
  /\ response[1].read > 2
  /\ Len(response[1].result.items) > 0

\* The records of the store were all there together in the local sources
\* at some moment.
FromOneVersion(st) == \E d \in trees : st.records = LocalRecords(d)

\* C25: with refreshes overlapping, every store published holds records
\* loaded from one single version of the source repositories; none mixes
\* records read before and after another refresh's repository sync.
C25_OneVersion ==
  bundledRecords = <<>> => \A k \in DOMAIN published : FromOneVersion(published[k])

\* The versions of the two working trees the records of the store were
\* read at.
VersionsOf(st) ==
  CHOOSE d \in [Repos -> 0..MaxVersion] : st.records = LocalRecords(d)

\* C26: the published store never regresses: a store published later is
\* built from no older a version of either repository than one published
\* before it.
C26_NeverRegresses ==
  bundledRecords = <<>> =>
    \A j, k \in DOMAIN published :
      j < k => \A repo \in Repos : VersionsOf(published[j])[repo] <= VersionsOf(published[k])[repo]

\* The pattern occurs in one of the fields of the record that the input
\* has searched, in the case the input asks for.
OccursIn(record, pattern, input) ==
  \E i \in DOMAIN fieldsOf(input.patternField) :
    IF input.patternCaseSensitive
      THEN includes(record[fieldsOf(input.patternField)[i]], pattern)
      ELSE includes(toLowerCase(record[fieldsOf(input.patternField)[i]]), toLowerCase(pattern))

\* The record is to be included: every pattern occurs for matchMode
\* 'all', some pattern for 'any'.
ToInclude(record, patterns, input) ==
  IF input.matchMode = "all"
    THEN \A i \in DOMAIN patterns : OccursIn(record, patterns[i], input)
    ELSE \E i \in DOMAIN patterns : OccursIn(record, patterns[i], input)

\* The ids of the candidates that are to be included.
IdsToInclude(candidates, patterns, input) ==
  {candidates[i].id : i \in {j \in DOMAIN candidates : ToInclude(candidates[j], patterns, input)}}

\* The answer is to a pattern search whose page holds every task.
WholePatternAnswer ==
  /\ response # <<>>
  /\ response[1].tool = "search_task_examples"
  /\ response[1].input.offset = 0
  /\ response[1].input.limit >= Len(published[response[1].read].records)

\* C27: a pattern search includes a candidate task exactly when every
\* distinct pattern (matchMode 'all'), or some pattern ('any'), occurs in
\* one of the searched fields, whatever maxMatches is and whatever earlier
\* patterns and fields matched.
C27_PatternInclusion ==
  WholePatternAnswer =>
    Range(Ids(response[1].result.items))
      = IdsToInclude(patternCandidates(published[response[1].read],
                                       recordsOfKind(published[response[1].read].records, "task"),
                                       response[1].input,
                                       trim(orEmpty(response[1].input.query))),
                     patternsOf(response[1].input), response[1].input)

\* --------------------------------------------- claims on the API tools

\* The answer is that of a call of the tool.
AnswerOf(tool) == response # <<>> /\ response[1].tool = tool

\* The answer is that of lint_task or of preview_task.
ApiAnswer == AnswerOf("lint_task") \/ AnswerOf("preview_task")

\* The answer is an error response whose error has the code.
ErrorWithCode(result, code) ==
  /\ result.isError
  /\ "error" \in DOMAIN result.structuredContent
  /\ result.structuredContent.error.code = code

\* The request of the call was aborted by the timer of the client.
TimedOut == ApiAnswer /\ response[1].input.outcome.kind = "abort"

\* C28: when the request of lint_task or preview_task is aborted by the
\* client-side timeout, the tool returns isError with an error whose code
\* is 'timeout'.
C28_TimeoutCode == TimedOut => ErrorWithCode(response[1].result, "timeout")

\* The export that was answered carries the warning about previews.
EmitsPreviewWarning(result) ==
  /\ "warnings" \in DOMAIN result.structuredContent
  /\ NO_PREVIEW_WARNING \in Range(result.structuredContent.warnings.value)

\* preview_task rejects the task with preview_requires_subscriptions,
\* whatever the configuration and whatever the API would answer.
PreviewRejects(task) ==
  \A apiConfig \in ApiConfigs, outcome \in Outcomes :
    ErrorWithCode(preview_task([task |-> task], apiConfig, outcome),
                  "preview_requires_subscriptions")

\* C29: build_task_export emits the warning 'No subscriptions or preview
\* events present; preview_task will fail.' for a task payload exactly
\* when preview_task rejects that payload with
\* preview_requires_subscriptions.
C29_WarningIffRejected ==
  AnswerOf("build_task_export") =>
    (EmitsPreviewWarning(response[1].result) <=> PreviewRejects(response[1].input.task))

\* The same of the warnings the handler collects before its answer is
\* parsed.
CollectsPreviewWarning(task) ==
  NO_PREVIEW_WARNING \in Range(exportWarnings(buildTaskExportPayload(task)))

CollectedIffRejected ==
  AnswerOf("build_task_export") =>
    (CollectsPreviewWarning(response[1].input.task) <=> PreviewRejects(response[1].input.task))

\* The value is a string that is not blank.
NonBlankString(v) == v.type = "string" /\ \E i \in DOMAIN v.value : v.value[i] \notin WHITESPACE

\* The value is an array that is not empty.
NonEmptyArray(v) == v.type = "array" /\ v.value # <<>>

\* The normalized task has nothing to preview with.
NothingToPreview(task) ==
  /\ ~NonBlankString(task.subscriptions_template)
  /\ ~NonEmptyArray(task.subscriptions)
  /\ ~NonEmptyArray(task.preview_event_definitions)

\* The call failed: the API is not configured, the request was aborted or
\* did not get through, the response is not a success, or its body is not
\* a result of the tool.
CallFailed ==
  /\ ApiAnswer
  /\ \/ ~configured(response[1].input.apiConfig)
     \/ response[1].input.outcome.kind \in {"abort", "network"}
     \/ /\ response[1].input.outcome.kind = "response"
        /\ \/ response[1].input.outcome.status \notin 200..299
           \/ response[1].input.outcome.body.kind # "json"
           \/ "task" \notin DOMAIN response[1].input.outcome.body.value

\* The answer is an error response with a structured error, and nothing
\* was thrown.
StructuredError(result) ==
  /\ result.isError
  /\ ~result.thrown
  /\ "error" \in DOMAIN result.structuredContent
  /\ {"code", "message"} \subseteq DOMAIN result.structuredContent.error

\* C30: preview_task makes no request to the API for a task that, once
\* normalized, has no non-blank subscriptions_template, no non-empty
\* subscriptions and no non-empty preview_event_definitions, and answers
\* isError with preview_requires_subscriptions; and every failure of
\* lint_task or preview_task is answered as isError with a structured
\* error and not thrown.
C30_NoCallWithoutInputs ==
  /\ (AnswerOf("preview_task")
        /\ NothingToPreview(normalizeTaskPayload(response[1].input.task)))
       => /\ response[1].result.requests = <<>>
          /\ ErrorWithCode(response[1].result, "preview_requires_subscriptions")
  /\ CallFailed => StructuredError(response[1].result)
  /\ ApiAnswer => ~response[1].result.thrown

\* A preview of a task with nothing to preview with, on a server whose
\* API is configured.
C30_Witness ==
  /\ AnswerOf("preview_task")
  /\ configured(response[1].input.apiConfig)
  /\ NothingToPreview(normalizeTaskPayload(response[1].input.task))
  /\ response[1].input.task.subscriptions_template = Str(T_blank)
  /\ response[1].result.isError


====
